---- MODULE Spec2Model ----
(***************************************************************************)
(* Model of the content-pipeline orchestrator of ai-livestream-llm:        *)
(*   - the Collection Playback Scheduler (modules/livestream_manager.py),  *)
(*   - the Worker Pool (modules/webdriver_handler.py),                     *)
(*   - the Fetch Resilience Layer (modules/web_scraper.py),                *)
(*   - the Retrieval Store Builder and the Retrieval Query Layer           *)
(*     (modules/database_handler.py, modules/judge.py),                    *)
(*   - the Scene Content Assembler and text generation                     *)
(*     (modules/core/high_level_orchestrators.py,                          *)
(*      modules/generation/openai_handler.py),                             *)
(*   - the tagged worker cleanup (modules/data/webdriver_handler.py),      *)
(*   - the search-API call counter (modules/configs.py, utils.py,          *)
(*     web_scraper.py), split_markdown_chunks on whole documents           *)
(*     (modules/text_processing.py) and the startup semaphore shared by    *)
(*     concurrent create_drivers calls,                                    *)
(*   - monitor_file_changes and create_current_topic_list                  *)
(*     (modules/utils.py),                                                 *)
(*   - generate_livestream from its tasks to the collections_handler call  *)
(*     (modules/livestream_manager.py).                                    *)
(* Each component has its own specification over the shared variables.     *)
(***************************************************************************)
EXTENDS Integers, Sequences, FiniteSets, TLC

(***************************************************************************)
(* Bounds of the model.                                                    *)
(***************************************************************************)
MaxIterations == 2
MaxScenes == 2
MaxYouTube == 2
MaxDrivers == 3

\* The value None of Python, for task handles (handles are indices >= 1).
NoTask == 0

VARIABLES
    \* ---- Collection Playback Scheduler ----
    total_collection_iterations, \* collections_handler parameter
    num_scenes,                  \* len(scenes_items)
    ch_pc,                       \* position of collections_handler
    i,                           \* loop index of collections_handler
    final_audio_task,            \* collections_handler local
    use_tts_api,                 \* configs.use_tts_api
    tts_api_calls,               \* what every generate_audio_handler call did
    generate_new_scene_items_task, \* collections_handler local (line 185)
    initial_previous_task,       \* scene_handler parameter
    previous_audio_task,         \* scene_handler local
    index,                       \* scene_handler loop index (0-based)
    pos_pc,                      \* position of process_one_scene
    generate_scene_task,         \* status of generate_scene_content
    youtube_audio_task,          \* process_one_scene local
    tasks,                       \* every play_audio task ever created
    yt_file,                     \* combined_output_youtube_interactivity.mp3 exists
    yt_created,                  \* how often the file has appeared
    clock,                       \* logical time of playback events
    passes_done,                 \* completed scene_handler calls
    \* ---- Worker Pool: one create_drivers call ----
    num_of_drivers,              \* create_drivers parameter
    allocs,                      \* the _one() coroutines of the call
    create_drivers_result,       \* "idle", "pending", "returned", "raised"
    drivers,                     \* the list create_drivers returns
    \* ---- create_databases_for_query, a caller of create_drivers ----
    cq_pc,                       \* position of create_databases_for_query
    driver_list,                 \* create_databases_for_query local
    \* ---- Fetch Resilience Layer: one fetch_and_process_slot call ----
    primary_url,                 \* parameter
    backup_url,                  \* parameter, NoUrl for None
    process_to_db,               \* parameter
    slot_pc,                     \* position of fetch_and_process_slot
    driver,                      \* the local 'driver': "given" or "fresh"
    clean_texts,                 \* local
    url_for_metadata,            \* local
    slot_result,                 \* the value returned
    quits,                       \* driver.quit() calls received per worker
    primary_content,             \* what the primary source delivered
    backup_content,              \* what the backup source delivered
    backup_branch,               \* the fallback branch has been entered
    fetch_attempts,              \* the fetch_html calls made, with their driver
    \* ---- Retrieval Store Builder: one create_databases_handler call ----
    scene_database_results,      \* what the gather of line 92 returned
    cdh_pc,                      \* position of create_databases_handler
    unique_databases,            \* configs.unique_databases
    merged_database,             \* configs.merged_database
    \* ---- Retrieval Query Layer: one find_relevant_docs_* call ----
    frd_fn,                      \* which of the two functions was called
    frd_query_list,              \* parameter: the query or the queries
    frd_database_list,           \* parameter: the stores or the one store
    frd_num_of_docs,             \* parameter num_of_docs_to_return
    frd_futures,                 \* state of every submitted lookup
    frd_page_content,            \* local relevant_page_content
    frd_metadata,                \* local metadata
    frd_completed,               \* what as_completed has yielded, in order
    frd_pc,                      \* position of the call
    frd_result,                  \* the value returned
    judge_pc,                    \* position of retrieve_secondary_judge_info
    \* ---- Scene Content Assembler: one create_script call ----
    cs_pc,                       \* position of create_script
    cs_queries,                  \* len(queries_dictionary_list)
    gpt_calls,                   \* the return_gpt_answer calls of the scene
    cs_completed,                \* get_intermediate_answer tasks, as they end
    combined_answers,            \* create_script local
    scene_items,                 \* the dictionary create_script returns
    \* ---- Tagged worker cleanup (modules/data/webdriver_handler.py) ----
    uuid4_calls,                 \* uuid.uuid4() values drawn so far
    worker_tags,                 \* driver._session_tag of every worker made
    procs,                       \* the OS process table
    cleanup_calls,               \* cleanup_chromedrivers calls made so far
    cleanup_result,              \* session_tag and outcome of the latest call
    \* ---- The search-API call counter ----
    cse_api_call_count,          \* the global of that name, per module
    cse_api_call_lock,           \* the google_search call that holds the lock
    searches,                    \* the google_search calls of the current cycle
    generate_livestream_calls,   \* generate_livestream calls made so far
    \* ---- Text chunking: one split_markdown_chunks call ----
    smc_document,                \* parameter: the lines of the document
    smc_max_words,               \* parameter
    smc_min_words,               \* parameter
    smc_chunks,                  \* the list returned, NotReturned before
    \* ---- Worker startup across concurrent create_drivers calls ----
    startup_sem_value,           \* DRIVER_STARTUP_SEM._value
    create_drivers_calls,        \* caller and _one() coroutines of every call
    \* ---- monitor_file_changes and create_current_topic_list ----
    stop_event,                  \* stop_event.is_set()
    file_mtime,                  \* os.path.getmtime(file_path), NoFile if absent
    last_mod_time,               \* monitor_file_changes local
    signal_queue,                \* the asyncio.Queue both functions share
    enqueued,                    \* every item ever put on the queue, in order
    monitor_pc,                  \* position of monitor_file_changes
    consumer_pc,                 \* position of create_current_topic_list
    current_topic_list,          \* create_current_topic_list local
    \* ---- generate_livestream up to its collections_handler call ----
    collection_scenes_config,    \* collection_config['scenes_config']
    image_page,                  \* what the image-source URL delivers
    image_scrape_task,           \* the task of that name
    database_task,               \* the task of that name
    scene_tasks,                 \* the create_script_handler tasks
    scene_tasks_finished,        \* positions of scene_tasks, as they end
    scenes_items,                \* gathered_results[1:]
    gl_pc                        \* position of generate_livestream

sched_vars == <<total_collection_iterations, num_scenes, ch_pc, i,
                final_audio_task, use_tts_api, generate_new_scene_items_task,
                initial_previous_task, previous_audio_task, index, pos_pc,
                generate_scene_task, youtube_audio_task, tasks, yt_file,
                yt_created, clock, passes_done, tts_api_calls>>

pool_vars == <<num_of_drivers, allocs, create_drivers_result, drivers>>

query_vars == <<cq_pc, driver_list>>

slot_vars == <<primary_url, backup_url, process_to_db, slot_pc, driver,
               clean_texts, url_for_metadata, slot_result, quits,
               primary_content, backup_content, backup_branch,
               fetch_attempts>>

store_vars == <<scene_database_results, cdh_pc, unique_databases,
                merged_database>>

retrieval_vars == <<frd_fn, frd_query_list, frd_database_list,
                    frd_num_of_docs, frd_futures, frd_page_content,
                    frd_metadata, frd_completed, frd_pc, frd_result, judge_pc>>

script_vars == <<cs_pc, cs_queries, gpt_calls, cs_completed, combined_answers,
                 scene_items>>

cleanup_vars == <<uuid4_calls, worker_tags, procs, cleanup_calls,
                  cleanup_result>>

counter_vars == <<cse_api_call_count, cse_api_call_lock, searches,
                  generate_livestream_calls>>

chunk_vars == <<smc_document, smc_max_words, smc_min_words, smc_chunks>>

startup_vars == <<startup_sem_value, create_drivers_calls>>

monitor_vars == <<stop_event, file_mtime, last_mod_time, signal_queue,
                  enqueued, monitor_pc, consumer_pc, current_topic_list>>

generate_vars == <<collection_scenes_config, image_page, image_scrape_task,
                   database_task, scene_tasks, scene_tasks_finished,
                   scenes_items, gl_pc>>

support_vars == <<cleanup_vars, counter_vars, chunk_vars, startup_vars,
                  monitor_vars, generate_vars>>

pipeline_vars == <<store_vars, retrieval_vars, script_vars, support_vars>>

main_vars == <<sched_vars, pool_vars, query_vars, slot_vars, store_vars,
               retrieval_vars, script_vars>>

non_sched_vars == <<pool_vars, query_vars, slot_vars, pipeline_vars>>

vars == <<sched_vars, pool_vars, query_vars, slot_vars, pipeline_vars>>

(***************************************************************************)
(* play_audio: a task is a record; end = 0 while the audio is playing.     *)
(***************************************************************************)
TaskDone(t) == tasks[t].end # 0

Running == {t \in 1..Len(tasks) : ~TaskDone(t)}

\* asyncio.create_task(play_audio(file_info))
StartPlay(name, scene) ==
    /\ tasks' = Append(tasks, [name |-> name, scene |-> scene,
                               start |-> clock, end |-> 0])
    /\ clock' = clock + 1

\* play_audio returns after asyncio.sleep(audio_duration)
PlayAudioFinishes(t) ==
    /\ UNCHANGED <<non_sched_vars, tts_api_calls>>
    /\ t \in Running
    /\ tasks' = [tasks EXCEPT ![t].end = clock]
    /\ clock' = clock + 1
    /\ UNCHANGED <<total_collection_iterations, num_scenes, ch_pc, i,
                   final_audio_task, use_tts_api, generate_new_scene_items_task,
                   initial_previous_task, previous_audio_task, index, pos_pc,
                   generate_scene_task, youtube_audio_task, yt_file,
                   yt_created, passes_done>>

(***************************************************************************)
(* collections_handler / scene_handler / process_one_scene                 *)
(***************************************************************************)
InSceneHandler == ch_pc \in {"first_pass", "pass"}

\* The YouTube-interactivity audio file is written by an outside producer.
YouTubeFileAppears ==
    /\ UNCHANGED <<non_sched_vars, tts_api_calls>>
    /\ ~yt_file
    /\ yt_created < MaxYouTube
    /\ yt_file' = TRUE
    /\ yt_created' = yt_created + 1
    /\ UNCHANGED <<total_collection_iterations, num_scenes, ch_pc, i,
                   final_audio_task, use_tts_api, generate_new_scene_items_task,
                   initial_previous_task, previous_audio_task, index, pos_pc,
                   generate_scene_task, youtube_audio_task, tasks, clock,
                   passes_done>>

\* scene_handler calls process_one_scene, which takes one of its branches.
ProcessOneSceneEnter ==
    /\ UNCHANGED <<non_sched_vars, tts_api_calls>>
    /\ InSceneHandler
    /\ pos_pc = "none"
    /\ index < num_scenes
    /\ IF yt_file
         THEN IF previous_audio_task # NoTask
                THEN /\ pos_pc' = "yt_await_previous"
                     /\ UNCHANGED <<generate_scene_task, youtube_audio_task,
                                    tasks, clock>>
                ELSE /\ StartPlay("youtube", index)
                     /\ youtube_audio_task' = Len(tasks) + 1
                     /\ generate_scene_task' = "running"
                     /\ pos_pc' = "yt_gather"
         ELSE /\ generate_scene_task' = "running"
              /\ pos_pc' = IF previous_audio_task # NoTask
                             THEN "gather" ELSE "generate"
              /\ UNCHANGED <<youtube_audio_task, tasks, clock>>
    /\ UNCHANGED <<total_collection_iterations, num_scenes, ch_pc, i,
                   final_audio_task, use_tts_api, generate_new_scene_items_task,
                   initial_previous_task, previous_audio_task, index, yt_file,
                   yt_created, passes_done>>

\* A YouTube branch that goes on without the previous playback.
YouTubePreviousNotAwaited == TRUE

\* 'if previous_audio_task: await previous_audio_task' has returned.
YouTubePreviousAwaited == TaskDone(previous_audio_task)

\* YouTube branch: 'await previous_audio_task' has returned.
YouTubeAwaitPreviousDone ==
    /\ UNCHANGED <<non_sched_vars, tts_api_calls>>
    /\ pos_pc = "yt_await_previous"
    /\ YouTubePreviousAwaited
    /\ StartPlay("youtube", index)
    /\ youtube_audio_task' = Len(tasks) + 1
    /\ generate_scene_task' = "running"
    /\ pos_pc' = "yt_gather"
    /\ UNCHANGED <<total_collection_iterations, num_scenes, ch_pc, i,
                   final_audio_task, use_tts_api, generate_new_scene_items_task,
                   initial_previous_task, previous_audio_task, index, yt_file,
                   yt_created, passes_done>>

\* generate_voice_recording without its early return.
SkipsTtsApiNever(flag, tts_flag_override) == FALSE

\* 'if configs.use_tts_api == False and tts_flag_override == False: return'
SkipsTtsApi(flag, tts_flag_override) ==
    flag = "False" /\ tts_flag_override = FALSE

\* 'tts_flag_override = False', the default generate_scene_content leaves.
DefaultOverride == FALSE

\* generate_audio_handler for the scene at a position of scenes_items: both
\* generate_voice_recording calls read the flag before the task ends.
GenerateAudioHandler(position, tts_flag_override) ==
    [pass |-> passes_done, scene |-> position,
     api |-> ~SkipsTtsApi(use_tts_api, tts_flag_override)]

\* generate_scene_content returns (saved_stream_items, audio_info).
GenerateSceneContentFinishes ==
    /\ UNCHANGED non_sched_vars
    /\ generate_scene_task = "running"
    /\ generate_scene_task' = "done"
    /\ tts_api_calls' = Append(tts_api_calls,
                                GenerateAudioHandler(index, DefaultOverride))
    /\ UNCHANGED <<total_collection_iterations, num_scenes, ch_pc, i,
                   final_audio_task, use_tts_api, generate_new_scene_items_task,
                   initial_previous_task, previous_audio_task, index, pos_pc,
                   youtube_audio_task, tasks, yt_file, yt_created, clock,
                   passes_done>>

\* asyncio.gather(youtube_audio_task, generate_scene_task)
YouTubeGatherJoined ==
    /\ TaskDone(youtube_audio_task)
    /\ generate_scene_task = "done"

\* A gather that forgets the previous playback.
GatherJoinedIgnoringPrevious ==
    generate_scene_task = "done"

\* asyncio.gather(previous_audio_task, generate_scene_task)
GatherJoined ==
    /\ TaskDone(previous_audio_task)
    /\ generate_scene_task = "done"

\* The await of the branch taken returns; os.remove in the YouTube branch.
ProcessOneSceneJoin ==
    /\ UNCHANGED <<non_sched_vars, tts_api_calls>>
    /\ \/ /\ pos_pc = "yt_gather"
          /\ YouTubeGatherJoined
          /\ yt_file' = FALSE
       \/ /\ pos_pc = "gather"
          /\ GatherJoined
          /\ UNCHANGED yt_file
       \/ /\ pos_pc = "generate"
          /\ generate_scene_task = "done"
          /\ UNCHANGED yt_file
    /\ pos_pc' = "download"
    /\ UNCHANGED <<total_collection_iterations, num_scenes, ch_pc, i,
                   final_audio_task, use_tts_api, generate_new_scene_items_task,
                   initial_previous_task, previous_audio_task, index,
                   generate_scene_task, youtube_audio_task, tasks, yt_created,
                   clock, passes_done>>

\* download_file_handler returns, the scene's play_audio task is created and
\* returned to scene_handler, which stores it in previous_audio_task.
ProcessOneSceneReturn ==
    /\ UNCHANGED <<non_sched_vars, tts_api_calls>>
    /\ pos_pc = "download"
    /\ StartPlay("scene", index)
    /\ previous_audio_task' = Len(tasks) + 1
    /\ index' = index + 1
    /\ pos_pc' = "none"
    /\ generate_scene_task' = "none"
    /\ youtube_audio_task' = NoTask
    /\ UNCHANGED <<total_collection_iterations, num_scenes, ch_pc, i,
                   final_audio_task, use_tts_api, generate_new_scene_items_task,
                   initial_previous_task, yt_file, yt_created, passes_done>>

\* scene_handler returns previous_audio_task to collections_handler.
SceneHandlerReturn ==
    /\ UNCHANGED <<non_sched_vars, tts_api_calls>>
    /\ InSceneHandler
    /\ pos_pc = "none"
    /\ index = num_scenes
    /\ final_audio_task' = previous_audio_task
    /\ passes_done' = passes_done + 1
    /\ IF ch_pc = "first_pass"
         THEN /\ use_tts_api' = "False"
              /\ i' = 0
         ELSE /\ i' = i + 1
              /\ UNCHANGED use_tts_api
    /\ ch_pc' = "loop_head"
    /\ UNCHANGED <<total_collection_iterations, num_scenes,
                   generate_new_scene_items_task, initial_previous_task,
                   previous_audio_task, index, pos_pc, generate_scene_task,
                   youtube_audio_task, tasks, yt_file, yt_created, clock>>

\* 'if i == (total_collection_iterations - 1)'
IsFinalIteration(k) == k = total_collection_iterations - 1

\* 'for i in range(total_collection_iterations)': next iteration or exit.
CollectionsHandlerLoop ==
    /\ UNCHANGED <<non_sched_vars, tts_api_calls>>
    /\ ch_pc = "loop_head"
    /\ IF i < total_collection_iterations
         THEN IF IsFinalIteration(i)
                THEN /\ ch_pc' = "final_iteration"
                     /\ UNCHANGED <<initial_previous_task, previous_audio_task,
                                    index>>
                ELSE /\ ch_pc' = "pass"
                     /\ initial_previous_task' = final_audio_task
                     /\ previous_audio_task' = final_audio_task
                     /\ index' = 0
         ELSE /\ ch_pc' = "returned"
              /\ UNCHANGED <<initial_previous_task, previous_audio_task, index>>
    /\ UNCHANGED <<total_collection_iterations, num_scenes, i,
                   final_audio_task, use_tts_api, generate_new_scene_items_task,
                   pos_pc, generate_scene_task, youtube_audio_task, tasks,
                   yt_file, yt_created, clock, passes_done>>

\* Parameters of generate_livestream, none of which has a default.
GenerateLivestreamParameters ==
    {"audio_already_playing", "first_call", "collection_config"}

\* Keyword arguments of the call in collections_handler.
GenerateLivestreamArguments == {"audio_already_playing", "first_call"}

\* The final iteration calls generate_livestream without collection_config:
\* the call raises TypeError before a coroutine exists, no task is created and
\* collections_handler ends with that exception.
LaunchGenerateLivestream ==
    /\ UNCHANGED <<non_sched_vars, tts_api_calls>>
    /\ ch_pc = "final_iteration"
    /\ GenerateLivestreamParameters \ GenerateLivestreamArguments # {}
    /\ ch_pc' = "raised"
    /\ UNCHANGED <<total_collection_iterations, num_scenes, i,
                   final_audio_task, use_tts_api, generate_new_scene_items_task,
                   initial_previous_task, previous_audio_task, index, pos_pc,
                   generate_scene_task, youtube_audio_task, tasks, yt_file,
                   yt_created, clock, passes_done>>

\* generate_livestream(first_call = True) awaits collections_handler(
\* scenes_items, initial_previous_task = None, total_collection_iterations).
InitScheduler ==
    /\ total_collection_iterations \in 0..MaxIterations
    /\ num_scenes \in 1..MaxScenes
    /\ ch_pc = "first_pass"
    /\ i = 0
    /\ final_audio_task = NoTask
    /\ use_tts_api = "True"
    /\ generate_new_scene_items_task = "none"
    /\ initial_previous_task = NoTask
    /\ previous_audio_task = NoTask
    /\ index = 0
    /\ pos_pc = "none"
    /\ generate_scene_task = "none"
    /\ youtube_audio_task = NoTask
    /\ tasks = <<>>
    /\ yt_file \in BOOLEAN
    /\ yt_created = 0
    /\ clock = 1
    /\ passes_done = 0
    /\ tts_api_calls = <<>>

NextScheduler ==
    \/ YouTubeFileAppears
    \/ ProcessOneSceneEnter
    \/ YouTubeAwaitPreviousDone
    \/ GenerateSceneContentFinishes
    \/ ProcessOneSceneJoin
    \/ ProcessOneSceneReturn
    \/ SceneHandlerReturn
    \/ CollectionsHandlerLoop
    \/ LaunchGenerateLivestream
    \/ \E t \in 1..Len(tasks) : PlayAudioFinishes(t)

\* The scheduler before generate_livestream has called collections_handler.
SchedulerIdle ==
    /\ total_collection_iterations = 0
    /\ num_scenes = 0
    /\ ch_pc = "idle"
    /\ i = 0
    /\ final_audio_task = NoTask
    /\ use_tts_api = "None"
    /\ generate_new_scene_items_task = "none"
    /\ initial_previous_task = NoTask
    /\ previous_audio_task = NoTask
    /\ index = 0
    /\ pos_pc = "none"
    /\ generate_scene_task = "none"
    /\ youtube_audio_task = NoTask
    /\ tasks = <<>>
    /\ yt_file = FALSE
    /\ yt_created = 0
    /\ clock = 1
    /\ passes_done = 0
    /\ tts_api_calls = <<>>

(***************************************************************************)
(* Worker Pool: initialize_chrome_driver and create_drivers                *)
(***************************************************************************)
\* DRIVER_STARTUP_SEM = asyncio.Semaphore(2)
DRIVER_STARTUP_SEM == 2

\* 'while retry_count < 10'
MaxAttempts == 10

\* A retry loop that allows one attempt too many.
RetryLoopContinuesOffByOne(retry_count) == retry_count <= MaxAttempts

\* The loop condition of initialize_chrome_driver.
RetryLoopContinues(retry_count) == retry_count < MaxAttempts

Allocations == 1..num_of_drivers

InProgress == {a \in Allocations : allocs[a].state = "running"}

\* The coroutines _one() that create_drivers hands to asyncio.gather.
NewAllocations(n) ==
    [a \in 1..n |-> [state |-> "waiting", retry_count |-> 0, attempts |-> 0]]

\* 'async with DRIVER_STARTUP_SEM': the allocation enters
\* initialize_chrome_driver in the executor, retry_count = 0.
AcquireStartupSem(a) ==
    /\ allocs[a].state = "waiting"
    /\ Cardinality(InProgress) < DRIVER_STARTUP_SEM
    /\ allocs' = [allocs EXCEPT ![a].state = "running"]
    /\ UNCHANGED <<num_of_drivers, create_drivers_result, drivers>>
    /\ UNCHANGED <<pipeline_vars, sched_vars, query_vars, slot_vars>>

\* One pass through the try block that returns the driver.
AttemptSucceeds(a) ==
    /\ allocs[a].state = "running"
    /\ RetryLoopContinues(allocs[a].retry_count)
    /\ allocs' = [allocs EXCEPT ![a].state = "done",
                                ![a].attempts = @ + 1]
    /\ UNCHANGED <<num_of_drivers, create_drivers_result, drivers>>
    /\ UNCHANGED <<pipeline_vars, sched_vars, query_vars, slot_vars>>

\* One pass through the try block that ends in the except clause.
AttemptFails(a) ==
    /\ allocs[a].state = "running"
    /\ RetryLoopContinues(allocs[a].retry_count)
    /\ allocs' = [allocs EXCEPT ![a].retry_count = @ + 1,
                                ![a].attempts = @ + 1]
    /\ UNCHANGED <<num_of_drivers, create_drivers_result, drivers>>
    /\ UNCHANGED <<pipeline_vars, sched_vars, query_vars, slot_vars>>

\* The loop ends: raise RuntimeError; the semaphore is released.
RetriesExhausted(a) ==
    /\ allocs[a].state = "running"
    /\ ~RetryLoopContinues(allocs[a].retry_count)
    /\ allocs' = [allocs EXCEPT ![a].state = "failed"]
    /\ UNCHANGED <<num_of_drivers, create_drivers_result, drivers>>
    /\ UNCHANGED <<pipeline_vars, sched_vars, query_vars, slot_vars>>

\* The drivers of the allocations that returned one, in allocation order.
RECURSIVE DriversOf(_, _)
DriversOf(al, n) ==
    IF n = 0 THEN <<>>
    ELSE IF al[n].state = "done"
           THEN Append(DriversOf(al, n - 1), n)
           ELSE DriversOf(al, n - 1)

\* A gather that swallows the exceptions of its children and returns the
\* results of the others once all have finished.
GatherSwallowingExceptions(al, n) ==
    IF \A a \in 1..n : al[a].state \in {"done", "failed"}
      THEN "returned"
      ELSE "pending"

\* asyncio.gather(*[_one() ...]) without return_exceptions: the first
\* exception of a child propagates, otherwise it returns when all returned.
Gather(al, n) ==
    IF \E a \in 1..n : al[a].state = "failed"
      THEN "raised"
      ELSE IF \A a \in 1..n : al[a].state = "done"
             THEN "returned"
             ELSE "pending"

\* create_drivers returns the list of drivers or ends with the exception.
CreateDriversEnds ==
    /\ create_drivers_result = "pending"
    /\ Gather(allocs, num_of_drivers) # "pending"
    /\ create_drivers_result' = Gather(allocs, num_of_drivers)
    /\ drivers' = IF Gather(allocs, num_of_drivers) = "returned"
                    THEN DriversOf(allocs, num_of_drivers)
                    ELSE <<>>
    /\ UNCHANGED <<num_of_drivers, allocs>>
    /\ UNCHANGED <<pipeline_vars, sched_vars, query_vars, slot_vars>>

\* create_databases_for_query: 'driver_list = await create_drivers(...)'
\* returns and the function goes on to fetch with driver_list.
QueryProceeds ==
    /\ cq_pc = "create_drivers"
    /\ create_drivers_result = "returned"
    /\ driver_list' = drivers
    /\ cq_pc' = "fetching"
    /\ UNCHANGED <<pipeline_vars, sched_vars, pool_vars, slot_vars>>

\* The exception of create_drivers propagates out of
\* create_databases_for_query, which has no handler around the await.
QueryRaises ==
    /\ cq_pc = "create_drivers"
    /\ create_drivers_result = "raised"
    /\ cq_pc' = "raised"
    /\ UNCHANGED driver_list
    /\ UNCHANGED <<pipeline_vars, sched_vars, pool_vars, slot_vars>>

PoolIdle ==
    /\ num_of_drivers = 0
    /\ allocs = NewAllocations(0)
    /\ create_drivers_result = "idle"
    /\ drivers = <<>>

QueryIdle ==
    /\ cq_pc = "idle"
    /\ driver_list = <<>>

(***************************************************************************)
(* Text chunking: split_markdown_chunks.  A markdown document is the       *)
(* sequence of its sections (what re.split(splitter_pattern, ...) returns, *)
(* never empty), a section is the sequence of its words (text.split()).    *)
(***************************************************************************)
Min(x, y) == IF x < y THEN x ELSE y

\* 'while chunk_start < len(words)': chunks of at most max_words words.
RECURSIVE HardSplit(_, _)
HardSplit(words, max_words) ==
    IF Len(words) = 0 THEN <<>>
    ELSE LET chunk_end == Min(max_words, Len(words))
         IN  <<SubSeq(words, 1, chunk_end)>>
                \o HardSplit(SubSeq(words, chunk_end + 1, Len(words)), max_words)

\* 'for chunk in chunks': flush the buffer once it has min_words words.
RECURSIVE CombineChunks(_, _, _)
CombineChunks(chunks, buffer, min_words) ==
    IF chunks = <<>>
      THEN IF buffer # <<>> THEN <<buffer>> ELSE <<>>
      ELSE LET joined == buffer \o Head(chunks)
           IN  IF Len(joined) >= min_words
                 THEN <<joined>> \o CombineChunks(Tail(chunks), <<>>, min_words)
                 ELSE CombineChunks(Tail(chunks), joined, min_words)

\* 'for text in clean_texts': the loop over the sections.
RECURSIVE SplitSections(_, _, _, _)
SplitSections(sections, final_chunks, max_words, min_words) ==
    IF sections = <<>> THEN final_chunks
    ELSE LET words == Head(sections)
             next_chunks ==
               IF Len(words) > max_words
                 THEN final_chunks
                        \o CombineChunks(HardSplit(words, max_words), <<>>, min_words)
                 ELSE IF min_words > 0 /\ Len(words) < min_words
                           /\ final_chunks # <<>>
                        THEN [final_chunks EXCEPT ![Len(final_chunks)] = @ \o words]
                        ELSE Append(final_chunks, words)
         IN  SplitSections(Tail(sections), next_chunks, max_words, min_words)

\* split_markdown_chunks(markdown_document, max_words, min_words) for a string.
split_markdown_chunks(markdown_document, max_words, min_words) ==
    SplitSections(markdown_document, <<>>, max_words, min_words)

\* 'def split_markdown_chunks(markdown_document, max_words, min_words=100)'
DefaultMinWords == 100

\* 'split_markdown_chunks(..., 500)' in fetch_html and fetch_html_sync
FetchMaxWords == 500

(***************************************************************************)
(* Fetch Resilience Layer: fetch_html and fetch_and_process_slot           *)
(***************************************************************************)
NoUrl == "None"

PdfUrls == {"primary.pdf", "backup.pdf"}

\* 'url.lower().endswith(".pdf")'
IsPdf(url) == url \in PdfUrls

\* Documents a source can deliver: the empty string, one section of one or
\* two words, and two sections (text before a heading, then the heading's).
Docs == { << <<>> >>,
          << <<"w1">> >>,
          << <<"w1", "w2">> >>,
          << <<>>, <<"w1">> >>,
          << <<"w1">>, <<"w2">> >> }

\* What a source delivers: a document, or nothing (timeout, load error,
\* failed download).
Failure == [failed |-> TRUE, doc |-> <<>>]

Contents == {Failure} \cup {[failed |-> FALSE, doc |-> d] : d \in Docs}

PyNone == [kind |-> "None", chunks |-> <<>>, website |-> NoUrl]

TextList(chunks) == [kind |-> "list", chunks |-> chunks, website |-> NoUrl]

\* Python truthiness of clean_texts: None and the empty list are falsy.
Truthy(texts) == texts.kind = "list" /\ Len(texts.chunks) > 0

\* fetch_html: a PDF goes through fetch_pdf_content, which returns None on
\* failure, and then through split_markdown_chunks, where re.split raises
\* TypeError on None; a web page goes through fetch_html_sync, which returns
\* None on any exception.
fetch_html(url, content) ==
    IF content.failed
      THEN IF IsPdf(url)
             THEN [raised |-> TRUE, value |-> PyNone]
             ELSE [raised |-> FALSE, value |-> PyNone]
      ELSE [raised |-> FALSE,
            value |-> TextList(split_markdown_chunks(content.doc, FetchMaxWords,
                                                     DefaultMinWords))]

\* process_text_to_db: one Document per text, all tagged {'website': url}.
process_text_to_db(texts, url) ==
    [kind |-> "Database", chunks |-> texts.chunks, website |-> url]

\* The return statements of fetch_and_process_slot.
SlotReturnValue(texts, url, to_db) ==
    IF Truthy(texts) /\ to_db
      THEN process_text_to_db(texts, url)
      ELSE IF Truthy(texts) THEN texts ELSE PyNone

Quit(d) == quits' = [quits EXCEPT ![d] = @ + 1]

\* fetch_html(driver, url, ..., attempt=attempt)
FetchAttempt(attempt, d) == [attempt |-> attempt, driver |-> d]

\* A fallback that keeps the driver of the primary attempt.
NewDriverIsGivenDriver == driver

\* 'driver = new_driver': the worker that create_drivers(1) returned.
NewDriver == "fresh"

\* 'if not clean_texts and backup_url'
WantsBackup(texts, backup) == ~Truthy(texts) /\ backup # NoUrl

\* The primary fetch_html call ends.  It raises (the finally clause quits the
\* driver), or the fallback branch is entered (quit the driver, sleep, call
\* create_drivers(1)), or the function returns (the finally clause quits).
PrimaryFetchEnds ==
    /\ slot_pc = "primary"
    /\ \E content \in Contents :
         LET r == fetch_html(primary_url, content) IN
         /\ primary_content' = content
         /\ fetch_attempts' = Append(fetch_attempts,
                                     FetchAttempt("primary", driver))
         /\ IF r.raised
              THEN /\ slot_pc' = "raised"
                   /\ Quit(driver)
                   /\ UNCHANGED <<clean_texts, url_for_metadata, slot_result,
                                  backup_branch, pool_vars>>
              ELSE /\ clean_texts' = r.value
                   /\ url_for_metadata' = primary_url
                   /\ Quit(driver)
                   /\ IF WantsBackup(r.value, backup_url)
                        THEN /\ slot_pc' = "respawn"
                             /\ backup_branch' = TRUE
                             /\ num_of_drivers' = 1
                             /\ allocs' = NewAllocations(1)
                             /\ create_drivers_result' = "pending"
                             /\ drivers' = <<>>
                             /\ UNCHANGED slot_result
                        ELSE /\ slot_pc' = "returned"
                             /\ slot_result' = SlotReturnValue(r.value, primary_url,
                                                               process_to_db)
                             /\ UNCHANGED <<backup_branch, pool_vars>>
    /\ UNCHANGED <<primary_url, backup_url, process_to_db, driver,
                   backup_content>>
    /\ UNCHANGED <<pipeline_vars, sched_vars, query_vars>>

\* 'new_driver = (await create_drivers(1))[0]; driver = new_driver'
RespawnReturns ==
    /\ slot_pc = "respawn"
    /\ create_drivers_result = "returned"
    /\ driver' = NewDriver
    /\ slot_pc' = "backup"
    /\ UNCHANGED <<primary_url, backup_url, process_to_db, clean_texts,
                   url_for_metadata, slot_result, quits, primary_content,
                   backup_content, backup_branch, fetch_attempts>>
    /\ UNCHANGED <<pipeline_vars, sched_vars, query_vars, pool_vars>>

\* create_drivers(1) raises: the finally clause quits 'driver', which still
\* names the worker given for the primary.
RespawnRaises ==
    /\ slot_pc = "respawn"
    /\ create_drivers_result = "raised"
    /\ Quit(driver)
    /\ slot_pc' = "raised"
    /\ UNCHANGED <<primary_url, backup_url, process_to_db, driver, clean_texts,
                   url_for_metadata, slot_result, primary_content,
                   backup_content, backup_branch, fetch_attempts>>
    /\ UNCHANGED <<pipeline_vars, sched_vars, query_vars, pool_vars>>

\* The backup fetch_html call ends; the function raises or returns, and the
\* finally clause quits the fresh driver.
BackupFetchEnds ==
    /\ slot_pc = "backup"
    /\ \E content \in Contents :
         LET r == fetch_html(backup_url, content) IN
         /\ backup_content' = content
         /\ fetch_attempts' = Append(fetch_attempts,
                                     FetchAttempt("backup", driver))
         /\ Quit(driver)
         /\ IF r.raised
              THEN /\ slot_pc' = "raised"
                   /\ UNCHANGED <<clean_texts, url_for_metadata, slot_result>>
              ELSE /\ clean_texts' = r.value
                   /\ url_for_metadata' = backup_url
                   /\ slot_pc' = "returned"
                   /\ slot_result' = SlotReturnValue(r.value, backup_url,
                                                     process_to_db)
    /\ UNCHANGED <<primary_url, backup_url, process_to_db, driver,
                   primary_content, backup_branch>>
    /\ UNCHANGED <<pipeline_vars, sched_vars, query_vars, pool_vars>>

NotFetched == [failed |-> TRUE, doc |-> <<<<"not fetched">>>>]

SlotIdle ==
    /\ primary_url = NoUrl
    /\ backup_url = NoUrl
    /\ process_to_db = FALSE
    /\ slot_pc = "idle"
    /\ driver = "given"
    /\ clean_texts = PyNone
    /\ url_for_metadata = NoUrl
    /\ slot_result = PyNone
    /\ quits = [d \in {"given", "fresh"} |-> 0]
    /\ primary_content = NotFetched
    /\ backup_content = NotFetched
    /\ backup_branch = FALSE
    /\ fetch_attempts = <<>>

(***************************************************************************)
(* Retrieval Store Builder: create_databases_handler after its gather,     *)
(* create_unique_databases and create_merged_database.                     *)
(***************************************************************************)
MaxStores == 4

\* class Document: page_content, metadata and an id that is unique per object.
Document(page_content, metadata, id) ==
    [page_content |-> page_content, metadata |-> metadata, id |-> id]

\* FAISS.from_documents: the index, of which the model keeps the docstore.
FAISS_from_documents(documents) == [kind |-> "FAISS", docstore |-> documents]

\* class Database: a FAISS index (or None) and metadata.
Database(database, metadata) == [database |-> database, metadata |-> metadata]

\* The object fetch_and_process_slot hands to the gather: None, or the
\* Database built by process_text_to_db, whose Documents are new objects
\* (uid tells the objects of one call from those of another).
SlotObject(result, uid) ==
    IF result.kind = "Database"
      THEN Database(FAISS_from_documents(
                        [n \in 1..Len(result.chunks) |->
                            Document(result.chunks[n],
                                     [website |-> result.website], <<uid, n>>)]),
                    [website |-> result.website])
      ELSE PyNone

Websites == {"a.html", "b.html"}

StoreTexts == { << <<"w1">> >>, << <<"w1">>, <<"w2">> >> }

\* What a slot called with process_to_db = True can return.
SlotResults ==
    {PyNone} \cup {process_text_to_db(TextList(t), w) :
                      t \in StoreTexts, w \in Websites}

\* Scenes, queries per scene and slots per query of a scenes_config.
Shapes ==
    {sh \in (1..MaxStores) \X (1..MaxStores) \X (1..MaxStores) :
        sh[1] * sh[2] * sh[3] <= MaxStores}

Cells(sh) == (1..sh[1]) \X (1..sh[2]) \X (1..sh[3])

\* scene_database_results: per scene the list of its queries' dictionaries
\* {'query': ..., 'database_list': [...]}.
GatheredResults(sh, f) ==
    [s \in 1..sh[1] |->
        [q \in 1..sh[2] |->
            [query |-> q,
             database_list |->
                 [l \in 1..sh[3] |-> SlotObject(f[<<s, q, l>>], <<s, q, l>>)]]]]

RECURSIVE FlattenQueries(_)
\* 'for item in sublist for db in item["database_list"]'
FlattenQueries(sublist) ==
    IF sublist = <<>>
      THEN <<>>
      ELSE Head(sublist).database_list \o FlattenQueries(Tail(sublist))

RECURSIVE Flatten(_)
\* 'for sublist in database_list ...'
Flatten(database_list) ==
    IF database_list = <<>>
      THEN <<>>
      ELSE FlattenQueries(Head(database_list)) \o Flatten(Tail(database_list))

\* 'if meta not in seen_metadata' with every website taken for new.
IsNewWebsiteAlways(meta, seen_metadata) == TRUE

\* 'if meta not in seen_metadata'
IsNewWebsite(meta, seen_metadata) == meta \notin seen_metadata

\* 'unique_databases.append(db)' turned into an insertion at the front.
PrependUnique(unique, db) == <<db>> \o unique

\* 'unique_databases.append(db)'
AppendUnique(unique, db) == Append(unique, db)

RECURSIVE UniqueLoop(_, _, _)
\* The loop of create_unique_databases; 'db.metadata' raises AttributeError
\* when db is None.
UniqueLoop(flattened_database_list, unique, seen_metadata) ==
    IF flattened_database_list = <<>>
      THEN [raised |-> FALSE, value |-> unique]
      ELSE LET db == Head(flattened_database_list) IN
           IF db = PyNone
             THEN [raised |-> TRUE, value |-> <<>>]
             ELSE LET meta == db.metadata.website IN
                  IF IsNewWebsite(meta, seen_metadata)
                    THEN UniqueLoop(Tail(flattened_database_list),
                                    AppendUnique(unique, db),
                                    seen_metadata \cup {meta})
                    ELSE UniqueLoop(Tail(flattened_database_list), unique,
                                    seen_metadata)

create_unique_databases(database_list) ==
    UniqueLoop(Flatten(database_list), <<>>, {})

RECURSIVE AllDocuments(_)
\* 'for database in configs.unique_databases: all_documents.extend(docs)'
AllDocuments(databases) ==
    IF databases = <<>>
      THEN <<>>
      ELSE Head(databases).database.docstore \o AllDocuments(Tail(databases))

\* A merge that adds the documents to the merged store already in configs.
create_merged_database_in_place(databases) ==
    IF merged_database = PyNone
      THEN Database(FAISS_from_documents(AllDocuments(databases)), "Not used")
      ELSE Database(FAISS_from_documents(merged_database.database.docstore
                                            \o AllDocuments(databases)),
                    "Not used")

create_merged_database(databases) ==
    Database(FAISS_from_documents(AllDocuments(databases)), "Not used")

\* The per-source Store an earlier create_databases_handler call of the same
\* process left in configs.
PreviousStore ==
    SlotObject(process_text_to_db(TextList(<< <<"w0">> >>), "a.html"),
               <<0, 0, 0>>)

\* The Collection-Wide Store that earlier call left in configs.
PreviousMerged ==
    Database(FAISS_from_documents(PreviousStore.database.docstore), "Not used")

\* configs.unique_databases and configs.merged_database when the handler is
\* called: '[]' and None of configs.py, or the stores of an earlier call.
StoresAtCall ==
    {[unique |-> <<>>, merged |-> PyNone],
     [unique |-> <<PreviousStore>>,
      merged |-> PreviousMerged]}

\* 'configs.unique_databases = await create_unique_databases(...)' returns.
CreateUniqueDatabasesReturns ==
    /\ cdh_pc = "gathered"
    /\ LET r == create_unique_databases(scene_database_results) IN
         /\ ~r.raised
         /\ unique_databases' = r.value
    /\ cdh_pc' = "unique"
    /\ UNCHANGED <<scene_database_results, merged_database>>
    /\ UNCHANGED support_vars
    /\ UNCHANGED <<sched_vars, pool_vars, query_vars, slot_vars,
                   retrieval_vars, script_vars>>

\* create_unique_databases raises; create_databases_handler has no handler.
CreateUniqueDatabasesRaises ==
    /\ cdh_pc = "gathered"
    /\ create_unique_databases(scene_database_results).raised
    /\ cdh_pc' = "raised"
    /\ UNCHANGED <<scene_database_results, unique_databases, merged_database>>
    /\ UNCHANGED support_vars
    /\ UNCHANGED <<sched_vars, pool_vars, query_vars, slot_vars,
                   retrieval_vars, script_vars>>

\* 'configs.merged_database = await create_merged_database()', then
\* 'return scene_database_results'.
CreateMergedDatabaseReturns ==
    /\ cdh_pc = "unique"
    /\ merged_database' = create_merged_database(unique_databases)
    /\ cdh_pc' = "returned"
    /\ UNCHANGED <<scene_database_results, unique_databases>>
    /\ UNCHANGED support_vars
    /\ UNCHANGED <<sched_vars, pool_vars, query_vars, slot_vars,
                   retrieval_vars, script_vars>>

StoreIdle ==
    /\ scene_database_results = <<>>
    /\ cdh_pc = "idle"
    /\ unique_databases = <<>>
    /\ merged_database = PyNone

(***************************************************************************)
(* Retrieval Query Layer: similarity_search, find_relevant_docs_database   *)
(* (one query, many stores) and find_relevant_docs_query (many queries,    *)
(* one store) with its caller retrieve_secondary_judge_info.               *)
(***************************************************************************)
MaxLookups == 3

MaxK == 2

\* A Database object whose index is None.
UnavailableDatabase == Database(PyNone, [website |-> "a.html"])

\* What a database_list can hold: None (a slot that returned nothing), a
\* Database without index, a store of one document and one of two.
SearchableStores ==
    { PyNone,
      UnavailableDatabase,
      process_text_to_db(TextList(<< <<"w1">> >>), "a.html"),
      process_text_to_db(TextList(<< <<"w1">>, <<"w2">> >>), "b.html") }

\* The store object at position n of a database_list.
StoreObject(s, n) == IF s = UnavailableDatabase THEN s ELSE SlotObject(s, n)

\* configs.merged_database as create_databases_handler builds it from two
\* websites; the text "w1" occurs on both.
MergedStore ==
    create_merged_database(
        << SlotObject(process_text_to_db(TextList(<< <<"w1">> >>), "a.html"), 1),
           SlotObject(process_text_to_db(TextList(<< <<"w1">>, <<"w2">> >>),
                                         "b.html"), 2) >>)

\* The result of similarity_search for a store without index.  The string
\* 'None' is the text <<"None">>; the metadata entry 'None' is written as a
\* metadata map without website.
NoData ==
    [raised |-> FALSE,
     relevant_page_content |-> << <<"None">> >>,
     metadata |-> << [website |-> NoUrl] >>]

\* similarity_search_with_score returning every document, whatever k.
RankingsIgnoringK(n, k) ==
    {r \in [1..n -> 1..n] : \A a, b \in 1..n : a # b => r[a] # r[b]}

\* The rankings similarity_search_with_score(query, k) can produce over n
\* documents: the k best, or all n when there are fewer, each once.
Rankings(n, k) ==
    {r \in [1..Min(k, n) -> 1..n] :
        \A a, b \in 1..Min(k, n) : a # b => r[a] # r[b]}

\* similarity_search: 'database.database' raises AttributeError on None; a
\* Database without index gives NoData; otherwise the passages of a ranking.
similarity_search(query, database, num_of_docs_to_return) ==
    IF database = PyNone
      THEN {[raised |-> TRUE, relevant_page_content |-> <<>>, metadata |-> <<>>]}
      ELSE IF database.database = PyNone
        THEN {NoData}
        ELSE LET docs == database.database.docstore IN
             {[raised |-> FALSE,
               relevant_page_content |->
                   [a \in DOMAIN r |-> docs[r[a]].page_content],
               metadata |-> [a \in DOMAIN r |-> docs[r[a]].metadata]] :
                  r \in Rankings(Len(docs), num_of_docs_to_return)}

RECURSIVE Join(_, _)
\* sep.join(texts): a text is the sequence of its words.
Join(sep, texts) ==
    IF texts = <<>>
      THEN <<>>
      ELSE IF Len(texts) = 1
        THEN Head(texts)
        ELSE Head(texts) \o <<sep>> \o Join(sep, Tail(texts))

RECURSIVE FromKeys(_, _)
\* list(dict.fromkeys(texts)): the first occurrence of every text, in order.
FromKeys(texts, seen) ==
    IF texts = <<>>
      THEN <<>>
      ELSE IF Head(texts) \in seen
        THEN FromKeys(Tail(texts), seen)
        ELSE <<Head(texts)>> \o FromKeys(Tail(texts), seen \cup {Head(texts)})

\* The lookups submitted to the executor, one future each.
Lookups ==
    IF frd_fn = "find_relevant_docs_database"
      THEN 1..Len(frd_database_list)
      ELSE 1..Len(frd_query_list)

QueryOf(n) ==
    IF frd_fn = "find_relevant_docs_database"
      THEN frd_query_list[1] ELSE frd_query_list[n]

StoreOf(n) ==
    IF frd_fn = "find_relevant_docs_database"
      THEN frd_database_list[n] ELSE frd_database_list[1]

\* One lookup ends and as_completed hands its future to the loop, which
\* extends both lists with the result.
LookupCompletes(n) ==
    /\ frd_pc = "submitted"
    /\ frd_futures[n] = "pending"
    /\ \E result \in similarity_search(QueryOf(n), StoreOf(n), frd_num_of_docs) :
         /\ ~result.raised
         /\ frd_page_content' =
                frd_page_content \o result.relevant_page_content
         /\ frd_metadata' = frd_metadata \o result.metadata
         /\ frd_completed' =
                Append(frd_completed,
                       [lookup |-> n,
                        passages |-> result.relevant_page_content])
    /\ frd_futures' = [frd_futures EXCEPT ![n] = "done"]
    /\ UNCHANGED <<frd_fn, frd_query_list, frd_database_list, frd_num_of_docs,
                   frd_pc, frd_result, judge_pc>>
    /\ UNCHANGED support_vars
    /\ UNCHANGED <<sched_vars, pool_vars, query_vars, slot_vars, store_vars,
                   script_vars>>

\* One lookup ends with an exception: 'future.result()' raises it in the
\* loop and the function raises.
LookupRaises(n) ==
    /\ frd_pc = "submitted"
    /\ frd_futures[n] = "pending"
    /\ \E result \in similarity_search(QueryOf(n), StoreOf(n), frd_num_of_docs) :
         result.raised
    /\ frd_futures' = [frd_futures EXCEPT ![n] = "done"]
    /\ frd_pc' = "raised"
    /\ UNCHANGED <<frd_fn, frd_query_list, frd_database_list, frd_num_of_docs,
                   frd_page_content, frd_metadata, frd_completed, frd_result,
                   judge_pc>>
    /\ UNCHANGED support_vars
    /\ UNCHANGED <<sched_vars, pool_vars, query_vars, slot_vars, store_vars,
                   script_vars>>

\* 'return [relevant_page_content_string, metadata]'
FindRelevantDocsDatabaseReturns ==
    /\ frd_fn = "find_relevant_docs_database"
    /\ frd_pc = "submitted"
    /\ \A n \in Lookups : frd_futures[n] = "done"
    /\ frd_result' = [kind |-> "list",
                      relevant_page_content_string |->
                          Join(", ", frd_page_content),
                      metadata |-> frd_metadata]
    /\ frd_pc' = "returned"
    /\ UNCHANGED <<frd_fn, frd_query_list, frd_database_list, frd_num_of_docs,
                   frd_futures, frd_page_content, frd_metadata, frd_completed,
                   judge_pc>>
    /\ UNCHANGED support_vars
    /\ UNCHANGED <<sched_vars, pool_vars, query_vars, slot_vars, store_vars,
                   script_vars>>

\* find_relevant_docs_query removes repeated texts, joins the rest and ends
\* without a return statement: the call returns None.
FindRelevantDocsQueryReturns ==
    /\ frd_fn = "find_relevant_docs_query"
    /\ frd_pc = "submitted"
    /\ \A n \in Lookups : frd_futures[n] = "done"
    /\ frd_page_content' = FromKeys(frd_page_content, {})
    /\ frd_result' = PyNone
    /\ frd_pc' = "returned"
    /\ UNCHANGED <<frd_fn, frd_query_list, frd_database_list, frd_num_of_docs,
                   frd_futures, frd_metadata, frd_completed, judge_pc>>
    /\ UNCHANGED support_vars
    /\ UNCHANGED <<sched_vars, pool_vars, query_vars, slot_vars, store_vars,
                   script_vars>>

\* 'secondary_judge_info, _ = await find_relevant_docs_query(...)': None
\* cannot be unpacked, TypeError.
RetrieveSecondaryJudgeInfoRaises ==
    /\ judge_pc = "awaiting"
    /\ frd_pc = "returned"
    /\ frd_result = PyNone
    /\ judge_pc' = "raised"
    /\ UNCHANGED <<frd_fn, frd_query_list, frd_database_list, frd_num_of_docs,
                   frd_futures, frd_page_content, frd_metadata, frd_completed,
                   frd_pc, frd_result>>
    /\ UNCHANGED support_vars
    /\ UNCHANGED <<sched_vars, pool_vars, query_vars, slot_vars, store_vars,
                   script_vars>>

RetrievalIdle ==
    /\ frd_fn = "idle"
    /\ frd_query_list = <<>>
    /\ frd_database_list = <<>>
    /\ frd_num_of_docs = 0
    /\ frd_futures = <<>>
    /\ frd_page_content = <<>>
    /\ frd_metadata = <<>>
    /\ frd_completed = <<>>
    /\ frd_pc = "idle"
    /\ frd_result = PyNone
    /\ judge_pc = "idle"

(***************************************************************************)
(* Tagged worker cleanup: cleanup_chromedrivers and the session tag of      *)
(* initialize_chrome_driver (modules/data/webdriver_handler.py).            *)
(***************************************************************************)
MaxWorkers == 2
MaxOutside == 1
MaxCleanups == 1

\* f"chrome_session_{uuid.uuid4()}"
SessionTag(uuid) == [text |-> "chrome_session_", uuid |-> uuid]

\* The arguments '' and None.
EmptyString == [text |-> "", uuid |-> 0]

NoneValue == [text |-> "None", uuid |-> 0]

\* A guard that lets every argument through.
NotSessionTagNever(session_tag) == FALSE

\* 'if not session_tag'
NotSessionTag(session_tag) == session_tag \in {EmptyString, NoneValue}

\* proc.info['name']; NoName stands for None and ''.
NoName == ""

ProcessNames == {"chrome", "chromedriver", "Google Chrome Helper", "python3",
                 NoName}

\* The names of the processes that other programs start.
OutsideNames == ProcessNames \ {"chromedriver"}

\* 'chrome' in name.lower() or 'chromedriver' in name.lower()
ContainsChrome(name) ==
    name \in {"chrome", "chromedriver", "Google Chrome Helper"}

\* 'session_tag in cmd': cmd is modelled by the set of session tags that
\* occur in it; the empty string occurs in every string.
TagInCmd(session_tag, cmd) == session_tag = EmptyString \/ session_tag \in cmd

\* A test that looks at the process name alone.
KillConditionByName(name, cmd, session_tag) == ContainsChrome(name)

\* The condition under which the loop calls proc.kill().
KillCondition(name, cmd, session_tag) ==
    /\ ContainsChrome(name)
    /\ TagInCmd(session_tag, cmd)

\* A running process; worker is the number of the pool worker that started
\* it, 0 for a process of another program.
Process(name, cmdline, worker) ==
    [name |-> name, cmdline |-> cmdline, worker |-> worker, alive |-> TRUE]

\* psutil.process_iter yields the running processes.
Pids == 1..Len(procs)

\* The processes on which one call of the loop calls proc.kill().
KillAttempts(session_tag) ==
    {p \in Pids : /\ procs[p].alive
                  /\ procs[p].name # NoName
                  /\ KillCondition(procs[p].name, procs[p].cmdline,
                                   session_tag)}

IssuedTags == {worker_tags[w] : w \in 1..Len(worker_tags)}

\* initialize_chrome_driver: one session tag per call, drawn before the retry
\* loop; Chrome is started with --user-data-dir=/tmp/{session_tag}. Whether
\* the command line of the chromedriver process shows the tag is left open.
InitializeChromeDriver ==
    /\ UNCHANGED <<main_vars, counter_vars, chunk_vars, startup_vars,
                   monitor_vars, generate_vars>>
    /\ Len(worker_tags) < MaxWorkers
    /\ uuid4_calls' = uuid4_calls + 1
    /\ LET session_tag == SessionTag(uuid4_calls + 1)
       IN  /\ worker_tags' = Append(worker_tags, session_tag)
           /\ \E driver_cmdline \in {{}, {session_tag}} :
                 procs' = procs \o
                     << Process("chromedriver", driver_cmdline,
                                Len(worker_tags) + 1),
                        Process("chrome", {session_tag},
                                Len(worker_tags) + 1) >>
    /\ UNCHANGED <<cleanup_calls, cleanup_result>>

\* The processes that do not belong to the pool.
Outside == {p \in Pids : procs[p].worker = 0}

\* Some other program starts a process; its command line may mention a tag.
ProcessAppears ==
    /\ UNCHANGED <<main_vars, counter_vars, chunk_vars, startup_vars,
                   monitor_vars, generate_vars>>
    /\ Cardinality(Outside) < MaxOutside
    /\ \E name \in OutsideNames :
         \E cmdline \in {{}} \cup {{t} : t \in IssuedTags} :
            /\ name = "chrome" => cmdline = {}
            /\ procs' = Append(procs, Process(name, cmdline, 0))
    /\ UNCHANGED <<uuid4_calls, worker_tags, cleanup_calls, cleanup_result>>

CleanupArguments == {EmptyString, NoneValue} \cup IssuedTags

\* cleanup_chromedrivers(session_tag): the ValueError of line 33, or the loop
\* over the process table. proc.kill() raises AccessDenied for a process that
\* may not be killed, and the loop goes on with the next process. (A process
\* that exits during the loop, NoSuchProcess, is one that is not running.)
CleanupChromedrivers ==
    /\ UNCHANGED <<main_vars, counter_vars, chunk_vars, startup_vars,
                   monitor_vars, generate_vars>>
    /\ cleanup_calls < MaxCleanups
    /\ cleanup_calls' = cleanup_calls + 1
    /\ \E session_tag \in CleanupArguments :
         IF NotSessionTag(session_tag)
           THEN /\ cleanup_result' =
                       [session_tag |-> session_tag, outcome |-> "ValueError",
                        killed |-> {}]
                /\ UNCHANGED procs
           ELSE \E access_denied \in SUBSET KillAttempts(session_tag) :
                  LET killed == KillAttempts(session_tag) \ access_denied
                  IN  /\ procs' = [p \in Pids |->
                            IF p \in killed
                              THEN [procs[p] EXCEPT !.alive = FALSE]
                              ELSE procs[p]]
                      /\ cleanup_result' =
                            [session_tag |-> session_tag,
                             outcome |-> "returned", killed |-> killed]
    /\ UNCHANGED <<uuid4_calls, worker_tags>>

NoCleanup == [session_tag |-> NoneValue, outcome |-> "none", killed |-> {}]

\* No worker has been made and cleanup_chromedrivers has not been called.
CleanupIdle ==
    /\ uuid4_calls = 0
    /\ worker_tags = <<>>
    /\ procs = <<>>
    /\ cleanup_calls = 0
    /\ cleanup_result = NoCleanup

(***************************************************************************)
(* The search-API call counter: configs.cse_api_call_count, imported by     *)
(* name into modules/utils.py and modules/web_scraper.py.                   *)
(***************************************************************************)
MaxCycles == 2
MaxSearches == 3

\* 'from modules.configs import cse_api_call_count' binds a global of the
\* importing module to the value; 'global cse_api_call_count' in a function
\* names the global of the module that defines the function.
Modules == {"configs", "utils", "web_scraper"}

Unlocked == 0

SearchIds == 1..MaxSearches

\* reset_global_variables of modules/utils.py: 'cse_api_call_count = 0'
reset_global_variables(count) == [count EXCEPT !["utils"] = 0]

\* 'cse_api_call_count += 1' in google_search of modules/web_scraper.py
Increment(count) == [count EXCEPT !["web_scraper"] = @ + 1]

\* generate_livestream is called (again, when the code is rerun) and calls
\* reset_global_variables; the searches of the cycle before have returned.
GenerateLivestreamStarts ==
    /\ UNCHANGED <<main_vars, cleanup_vars, chunk_vars, startup_vars,
                   monitor_vars, generate_vars>>
    /\ generate_livestream_calls < MaxCycles
    /\ \A n \in SearchIds : searches[n] \in {"not called", "returned"}
    /\ generate_livestream_calls' = generate_livestream_calls + 1
    /\ cse_api_call_count' = reset_global_variables(cse_api_call_count)
    /\ searches' = [n \in SearchIds |-> "not called"]
    /\ UNCHANGED cse_api_call_lock

\* google_search is called and reaches 'async with cse_api_call_lock'.
GoogleSearchCalled(n) ==
    /\ UNCHANGED <<main_vars, cleanup_vars, chunk_vars, startup_vars,
                   monitor_vars, generate_vars>>
    /\ generate_livestream_calls > 0
    /\ searches[n] = "not called"
    /\ searches' = [searches EXCEPT ![n] = "waiting"]
    /\ UNCHANGED <<cse_api_call_count, cse_api_call_lock,
                   generate_livestream_calls>>

\* The lock is acquired.
GoogleSearchLocks(n) ==
    /\ UNCHANGED <<main_vars, cleanup_vars, chunk_vars, startup_vars,
                   monitor_vars, generate_vars>>
    /\ searches[n] = "waiting"
    /\ cse_api_call_lock = Unlocked
    /\ cse_api_call_lock' = n
    /\ searches' = [searches EXCEPT ![n] = "locked"]
    /\ UNCHANGED <<cse_api_call_count, generate_livestream_calls>>

\* The increment under the lock, and the release of the lock.
GoogleSearchCounts(n) ==
    /\ UNCHANGED <<main_vars, cleanup_vars, chunk_vars, startup_vars,
                   monitor_vars, generate_vars>>
    /\ searches[n] = "locked"
    /\ cse_api_call_lock = n
    /\ cse_api_call_count' = Increment(cse_api_call_count)
    /\ cse_api_call_lock' = Unlocked
    /\ searches' = [searches EXCEPT ![n] = "counted"]
    /\ UNCHANGED generate_livestream_calls

\* The HTTP request ends and google_search returns its links.
GoogleSearchReturns(n) ==
    /\ UNCHANGED <<main_vars, cleanup_vars, chunk_vars, startup_vars,
                   monitor_vars, generate_vars>>
    /\ searches[n] = "counted"
    /\ searches' = [searches EXCEPT ![n] = "returned"]
    /\ UNCHANGED <<cse_api_call_count, cse_api_call_lock,
                   generate_livestream_calls>>

\* The modules have been imported: 'cse_api_call_count = 0' of configs.py.
CounterIdle ==
    /\ cse_api_call_count = [m \in Modules |-> 0]
    /\ cse_api_call_lock = Unlocked
    /\ searches = [n \in SearchIds |-> "not called"]
    /\ generate_livestream_calls = 0

(***************************************************************************)
(* split_markdown_chunks on a whole document.  A document is the sequence   *)
(* of its lines; a line is a heading line (it starts with '#'s and a        *)
(* whitespace character) or not, and holds words.  Words are numbered       *)
(* through the document; the heading marker of line n is the token -n.      *)
(***************************************************************************)
MaxLines == 2
MaxLineWords == 2
MaxChunkWords == 2

Line(heading, words) == [heading |-> heading, words |-> words]

\* The words of a document whose lines hold counts[1], counts[2], ... words.
RECURSIVE NumberedLines(_, _, _)
NumberedLines(headings, counts, first) ==
    IF headings = <<>> THEN <<>>
    ELSE <<Line(Head(headings),
                [w \in 1..Head(counts) |-> first + w - 1])>>
           \o NumberedLines(Tail(headings), Tail(counts),
                            first + Head(counts))

Documents ==
    UNION {{NumberedLines(headings, counts, 1) :
               headings \in [1..len -> BOOLEAN],
               counts \in [1..len -> 0..MaxLineWords]} : len \in 0..MaxLines}

\* markdown_document.split(): the document after whitespace normalisation,
\* heading markers included.
RECURSIVE Normalised(_, _)
Normalised(lines, n) ==
    IF lines = <<>> THEN <<>>
    ELSE (IF Head(lines).heading THEN <<0 - n>> ELSE <<>>)
           \o Head(lines).words \o Normalised(Tail(lines), n + 1)

\* re.split(splitter_pattern, markdown_document, flags=re.MULTILINE) with
\* splitter_pattern = r'^#+\s': the text is cut at every heading marker and
\* the marker is not part of any piece; each piece is given by its words.
RECURSIVE re_split(_, _)
re_split(lines, piece) ==
    IF lines = <<>> THEN <<piece>>
    ELSE IF Head(lines).heading
           THEN <<piece>> \o re_split(Tail(lines), Head(lines).words)
           ELSE re_split(Tail(lines), piece \o Head(lines).words)

NotReturned == << <<0>> >>

\* split_markdown_chunks(markdown_document, max_words, min_words) returns.
SplitMarkdownChunksReturns ==
    /\ UNCHANGED <<main_vars, cleanup_vars, counter_vars, startup_vars,
                   monitor_vars, generate_vars>>
    /\ smc_chunks = NotReturned
    /\ smc_chunks' = split_markdown_chunks(re_split(smc_document, <<>>),
                                           smc_max_words, smc_min_words)
    /\ UNCHANGED <<smc_document, smc_max_words, smc_min_words>>

\* split_markdown_chunks has not been called.
ChunkIdle ==
    /\ smc_document = <<>>
    /\ smc_max_words = 0
    /\ smc_min_words = 0
    /\ smc_chunks = NotReturned

(***************************************************************************)
(* Worker startup: the create_drivers calls that run at the same time       *)
(* (one per query in create_databases_for_query, one per backup respawn in  *)
(* fetch_and_process_slot) share the module-level DRIVER_STARTUP_SEM.       *)
(***************************************************************************)
MaxCalls == 2
MaxCallDrivers == 2

Callers == {"create_databases_for_query", "fetch_and_process_slot"}

\* 'create_drivers(1)' in the fallback; one driver per URL for a query.
NumOfDrivers(caller) ==
    IF caller = "fetch_and_process_slot" THEN {1} ELSE 1..MaxCallDrivers

Calls == 1..Len(create_drivers_calls)

AllocationsOf(c) == 1..Len(create_drivers_calls[c].allocs)

\* The initialize_chrome_driver runs in progress in call c.
InProgressOf(c) ==
    {a \in AllocationsOf(c) : create_drivers_calls[c].allocs[a] = "running"}

\* The initialize_chrome_driver runs in progress in all calls.
AllInProgress == {<<c, a>> \in Calls \X (1..MaxCallDrivers) :
                     a \in InProgressOf(c)}

\* A semaphore of its own for every create_drivers call.
StartupSemFreePerCall(c) == Cardinality(InProgressOf(c)) < DRIVER_STARTUP_SEM

\* asyncio.Semaphore.acquire does not wait: the value of the one semaphore
\* of the module is positive.
StartupSemFree(c) == startup_sem_value > 0

SetAllocation(c, a, state) ==
    create_drivers_calls' =
        [create_drivers_calls EXCEPT ![c].allocs[a] = state]

\* create_drivers(num_of_drivers) is called and hands its _one() coroutines
\* to asyncio.gather.
CreateDriversCalled ==
    /\ UNCHANGED <<main_vars, cleanup_vars, counter_vars, chunk_vars,
                   monitor_vars, generate_vars>>
    /\ Len(create_drivers_calls) < MaxCalls
    /\ \E caller \in Callers :
         \E n \in NumOfDrivers(caller) :
            create_drivers_calls' = Append(create_drivers_calls,
                [caller |-> caller, allocs |-> [a \in 1..n |-> "waiting"]])
    /\ UNCHANGED startup_sem_value

\* 'async with DRIVER_STARTUP_SEM' is entered and initialize_chrome_driver
\* starts in the executor.
StartupBegins(c, a) ==
    /\ UNCHANGED <<main_vars, cleanup_vars, counter_vars, chunk_vars,
                   monitor_vars, generate_vars>>
    /\ create_drivers_calls[c].allocs[a] = "waiting"
    /\ StartupSemFree(c)
    /\ startup_sem_value' = startup_sem_value - 1
    /\ SetAllocation(c, a, "running")

\* initialize_chrome_driver returns a driver; the semaphore is released.
StartupReturns(c, a) ==
    /\ UNCHANGED <<main_vars, cleanup_vars, counter_vars, chunk_vars,
                   monitor_vars, generate_vars>>
    /\ create_drivers_calls[c].allocs[a] = "running"
    /\ startup_sem_value' = startup_sem_value + 1
    /\ SetAllocation(c, a, "done")

\* initialize_chrome_driver raises RuntimeError after its retries; leaving
\* the 'async with' block releases the semaphore.
StartupRaises(c, a) ==
    /\ UNCHANGED <<main_vars, cleanup_vars, counter_vars, chunk_vars,
                   monitor_vars, generate_vars>>
    /\ create_drivers_calls[c].allocs[a] = "running"
    /\ startup_sem_value' = startup_sem_value + 1
    /\ SetAllocation(c, a, "failed")

\* The module has been imported and create_drivers has not been called.
StartupIdle ==
    /\ startup_sem_value = DRIVER_STARTUP_SEM
    /\ create_drivers_calls = <<>>

(***************************************************************************)
(* monitor_file_changes and create_current_topic_list (modules/utils.py):   *)
(* a monitor that puts file-change events on a queue and a consumer that    *)
(* collects one topic per event, both ended through stop_event.  A          *)
(* coroutine runs without interruption from one suspension to the next:     *)
(* asyncio.sleep suspends, Queue.get suspends only on an empty queue and    *)
(* Queue.put on a queue without maxsize never suspends.  The n-th event     *)
(* put on the queue is the item n.                                          *)
(***************************************************************************)
MaxModifications == 2

\* "sentinel_value"
Sentinel == 0

\* os.path.getmtime raises FileNotFoundError.
NoFile == 0

\* 'last_mod_time = None'
NoModTime == 0

Events(items) == SelectSeq(items, LAMBDA item : item # Sentinel)

\* 'await signal_queue.put(file_path)'
PutEvent(queue, history) ==
    [queue |-> Append(queue, Len(Events(history)) + 1),
     history |-> Append(history, Len(Events(history)) + 1)]

\* One more event flushed ahead of the sentinel.
PutSentinelAfterEvent(queue, history) ==
    [queue |-> Append(PutEvent(queue, history).queue, Sentinel),
     history |-> Append(PutEvent(queue, history).history, Sentinel)]

\* 'await signal_queue.put("sentinel_value")'
PutSentinel(queue, history) ==
    [queue |-> Append(queue, Sentinel), history |-> Append(history, Sentinel)]

\* The loop of monitor_file_changes from its condition to asyncio.sleep(1),
\* entered with the queue and the history q.
MonitorLoop(q) ==
    IF stop_event
      THEN /\ monitor_pc' = "final_sleep"
           /\ signal_queue' = q.queue
           /\ enqueued' = q.history
           /\ UNCHANGED last_mod_time
      ELSE /\ monitor_pc' = "sleeping"
           /\ IF file_mtime = NoFile
                THEN /\ signal_queue' = q.queue
                     /\ enqueued' = q.history
                     /\ UNCHANGED last_mod_time
                ELSE IF last_mod_time = NoModTime
                       THEN /\ last_mod_time' = file_mtime
                            /\ signal_queue' = q.queue
                            /\ enqueued' = q.history
                       ELSE IF file_mtime # last_mod_time
                              THEN /\ last_mod_time' = file_mtime
                                   /\ signal_queue' =
                                        PutEvent(q.queue, q.history).queue
                                   /\ enqueued' =
                                        PutEvent(q.queue, q.history).history
                              ELSE /\ signal_queue' = q.queue
                                   /\ enqueued' = q.history
                                   /\ UNCHANGED last_mod_time

MonitorFrame ==
    /\ UNCHANGED <<main_vars, cleanup_vars, counter_vars, chunk_vars,
                   startup_vars, generate_vars>>
    /\ UNCHANGED <<stop_event, file_mtime, consumer_pc, current_topic_list>>

\* monitor_file_changes starts: the first put, then the loop.
MonitorStarts ==
    /\ MonitorFrame
    /\ monitor_pc = "not started"
    /\ MonitorLoop(PutEvent(signal_queue, enqueued))

\* 'await asyncio.sleep(1)' at the end of the loop body returns.
MonitorWakes ==
    /\ MonitorFrame
    /\ monitor_pc = "sleeping"
    /\ MonitorLoop([queue |-> signal_queue, history |-> enqueued])

\* A monitor that returns without a sentinel.
MonitorEndsWithoutSentinel ==
    /\ MonitorFrame
    /\ monitor_pc = "final_sleep"
    /\ monitor_pc' = "returned"
    /\ UNCHANGED <<signal_queue, enqueued, last_mod_time>>

\* The sleep after the loop returns: the sentinel is put and the function
\* returns.
MonitorEnds ==
    /\ MonitorFrame
    /\ monitor_pc = "final_sleep"
    /\ signal_queue' = PutSentinel(signal_queue, enqueued).queue
    /\ enqueued' = PutSentinel(signal_queue, enqueued).history
    /\ monitor_pc' = "returned"
    /\ UNCHANGED last_mod_time

\* The loop of create_current_topic_list from its condition on: it returns,
\* or it suspends in change_queue.get() on an empty queue.
RECURSIVE ConsumerLoop(_, _)
ConsumerLoop(queue, topics) ==
    IF stop_event
      THEN [pc |-> "returned", queue |-> queue, topics |-> topics]
      ELSE IF queue = <<>>
             THEN [pc |-> "blocked", queue |-> queue, topics |-> topics]
             ELSE IF Head(queue) = Sentinel
                    THEN [pc |-> "returned", queue |-> Tail(queue),
                          topics |-> topics]
                    ELSE ConsumerLoop(Tail(queue), Append(topics, Head(queue)))

\* change_queue.get() returns the item it was waiting for.
ConsumerGot(queue, topics) ==
    IF Head(queue) = Sentinel
      THEN [pc |-> "returned", queue |-> Tail(queue), topics |-> topics]
      ELSE ConsumerLoop(Tail(queue), Append(topics, Head(queue)))

ConsumerFrame ==
    /\ UNCHANGED <<main_vars, cleanup_vars, counter_vars, chunk_vars,
                   startup_vars, generate_vars>>
    /\ UNCHANGED <<stop_event, file_mtime, last_mod_time, enqueued,
                   monitor_pc>>

ConsumerMoves(r) ==
    /\ consumer_pc' = r.pc
    /\ signal_queue' = r.queue
    /\ current_topic_list' = r.topics

\* create_current_topic_list starts.
ConsumerStarts ==
    /\ ConsumerFrame
    /\ consumer_pc = "not started"
    /\ ConsumerMoves(ConsumerLoop(signal_queue, <<>>))

\* The consumer is resumed with an item.
ConsumerWakes ==
    /\ ConsumerFrame
    /\ consumer_pc = "blocked"
    /\ signal_queue # <<>>
    /\ ConsumerMoves(ConsumerGot(signal_queue, current_topic_list))

\* read_file raises on the item received: 'except: return []'.
ConsumerReadFails ==
    /\ ConsumerFrame
    /\ consumer_pc = "blocked"
    /\ signal_queue # <<>>
    /\ Head(signal_queue) # Sentinel
    /\ ConsumerMoves([pc |-> "returned", queue |-> Tail(signal_queue),
                      topics |-> <<>>])

EnvironmentFrame ==
    /\ UNCHANGED <<main_vars, cleanup_vars, counter_vars, chunk_vars,
                   startup_vars, generate_vars>>
    /\ UNCHANGED <<last_mod_time, signal_queue, enqueued, monitor_pc,
                   consumer_pc, current_topic_list>>

\* Another coroutine calls stop_event.set().
StopEventSet ==
    /\ EnvironmentFrame
    /\ ~stop_event
    /\ stop_event' = TRUE
    /\ UNCHANGED file_mtime

\* The file is written (or created).
FileModified ==
    /\ EnvironmentFrame
    /\ file_mtime < MaxModifications
    /\ file_mtime' = file_mtime + 1
    /\ UNCHANGED stop_event

\* Neither function has been called.
MonitorIdle ==
    /\ stop_event = FALSE
    /\ file_mtime = NoFile
    /\ last_mod_time = NoModTime
    /\ signal_queue = <<>>
    /\ enqueued = <<>>
    /\ monitor_pc = "idle"
    /\ consumer_pc = "idle"
    /\ current_topic_list = <<>>

(***************************************************************************)
(* generate_livestream(first_call = True): the image scrape, the stores,   *)
(* the scenes' scripts, and the call of collections_handler.               *)
(***************************************************************************)
SceneNames == {"main", "summary", "outlook"}

\* The scenes_config lists of one to MaxScenes scenes, no scene twice.
ScenesConfigs ==
    {c \in UNION {[1..n -> SceneNames] : n \in 1..MaxScenes} :
        \A m, n \in 1..Len(c) : (m # n) => (c[m] # c[n])}

\* What the image-source URL delivers: nothing (timeout, load error), or a
\* page whose text names image files.
ImagePages ==
    {[failed |-> TRUE, chunks |-> <<>>],
     [failed |-> FALSE, chunks |-> <<>>],
     [failed |-> FALSE, chunks |-> << <<"tracks.png">> >>],
     [failed |-> FALSE, chunks |-> << <<"w1">>, <<"tracks.png", "gefs.png">> >>]}

ImageFileNames == {"tracks.png", "gefs.png"}

\* get_image_urls: the .png names of the text that have a base URL.
get_image_urls(chunks) ==
    {name \in ImageFileNames :
        \E n \in 1..Len(chunks) : \E k \in 1..Len(chunks[n]) :
            chunks[n][k] = name}

\* fetch_images_off_specific_url: fetch_html_sync returns None when the page
\* cannot be loaded, and ''.join(None) raises TypeError; nothing catches it.
fetch_images_off_specific_url(page) ==
    LET cleaned_html_list ==
            IF page.failed THEN PyNone ELSE TextList(page.chunks)
    IN  IF cleaned_html_list = PyNone
          THEN [state |-> "raised", value |-> {}]
          ELSE [state |-> "done",
                value |-> get_image_urls(cleaned_html_list.chunks)]

\* A task that has not ended.
RunningTask == [state |-> "running", value |-> {}]

\* scene_database_handler's result for a scene of the configuration.
SceneDatabaseResult(scene) == [database_of |-> scene]

\* create_script_handler's result for a scene and its database result.
SceneItems(scene, db_result) == [scene |-> scene, database |-> db_result]

\* asyncio.gather with the results in the order the tasks ended.
GatheredScenesAsCompleted(tasks_gathered, finished) ==
    [n \in 1..Len(tasks_gathered) |-> tasks_gathered[finished[n]].value]

\* 'gathered_results = await asyncio.gather(image_scrape_task, *scene_tasks)'
\* and 'scenes_items = gathered_results[1:]': results in argument order.
GatheredScenes(tasks_gathered, finished) ==
    [n \in 1..Len(tasks_gathered) |-> tasks_gathered[n].value]

GenerateFrame == UNCHANGED <<cleanup_vars, counter_vars, chunk_vars,
                             startup_vars, monitor_vars>>

\* fetch_images_off_specific_url ends.
ImageScrapeTaskEnds ==
    /\ GenerateFrame
    /\ UNCHANGED main_vars
    /\ image_scrape_task.state = "running"
    /\ image_scrape_task' = fetch_images_off_specific_url(image_page)
    /\ UNCHANGED <<collection_scenes_config, image_page, database_task,
                   scene_tasks, scene_tasks_finished, scenes_items, gl_pc>>

\* create_databases_handler ends: it returns one result per scene, in the
\* order of scenes_config, or it raises.
DatabaseTaskEnds ==
    /\ GenerateFrame
    /\ UNCHANGED main_vars
    /\ database_task.state = "running"
    /\ \/ database_task' =
             [state |-> "done",
              value |-> [n \in 1..Len(collection_scenes_config) |->
                            SceneDatabaseResult(collection_scenes_config[n])]]
       \/ database_task' = [state |-> "raised", value |-> <<>>]
    /\ UNCHANGED <<collection_scenes_config, image_page, image_scrape_task,
                   scene_tasks, scene_tasks_finished, scenes_items, gl_pc>>

\* 'await asyncio.gather(image_scrape_task, database_task)' returns, and the
\* scene tasks are created from zip(collection_scenes_config,
\* scene_database_results); or it raises the first exception of a task.
FirstGatherEnds ==
    /\ GenerateFrame
    /\ UNCHANGED main_vars
    /\ gl_pc = "gather_stores"
    /\ IF "raised" \in {image_scrape_task.state, database_task.state}
         THEN /\ gl_pc' = "raised"
              /\ UNCHANGED scene_tasks
         ELSE /\ image_scrape_task.state = "done"
              /\ database_task.state = "done"
              /\ scene_tasks' =
                    [n \in 1..Len(collection_scenes_config) |-> RunningTask]
              /\ gl_pc' = "gather_scenes"
    /\ UNCHANGED <<collection_scenes_config, image_page, image_scrape_task,
                   database_task, scene_tasks_finished, scenes_items>>

\* The create_script_handler task of the scene at position n ends.
SceneTaskEnds(n) ==
    /\ GenerateFrame
    /\ UNCHANGED main_vars
    /\ gl_pc = "gather_scenes"
    /\ scene_tasks[n].state = "running"
    /\ scene_tasks' =
          [scene_tasks EXCEPT
              ![n] = [state |-> "done",
                      value |-> SceneItems(collection_scenes_config[n],
                                           database_task.value[n])]]
    /\ scene_tasks_finished' = Append(scene_tasks_finished, n)
    /\ UNCHANGED <<collection_scenes_config, image_page, image_scrape_task,
                   database_task, scenes_items, gl_pc>>

\* The second gather returns; with audio_already_playing = False
\* generate_livestream awaits collections_handler(scenes_items,
\* initial_previous_task = None, total_collection_iterations), which sets
\* configs.use_tts_api = True and calls scene_handler.
SecondGatherEnds ==
    /\ GenerateFrame
    /\ UNCHANGED <<pool_vars, query_vars, slot_vars, store_vars,
                   retrieval_vars, script_vars>>
    /\ gl_pc = "gather_scenes"
    /\ \A n \in 1..Len(scene_tasks) : scene_tasks[n].state = "done"
    /\ scenes_items' = GatheredScenes(scene_tasks, scene_tasks_finished)
    /\ gl_pc' = "collections_handler"
    /\ total_collection_iterations' \in 0..MaxIterations
    /\ num_scenes' = Len(scene_tasks)
    /\ ch_pc' = "first_pass"
    /\ use_tts_api' = "True"
    /\ UNCHANGED <<i, final_audio_task, generate_new_scene_items_task,
                   initial_previous_task, previous_audio_task, index, pos_pc,
                   generate_scene_task, youtube_audio_task, tasks, yt_file,
                   yt_created, clock, passes_done, tts_api_calls>>
    /\ UNCHANGED <<collection_scenes_config, image_page, image_scrape_task,
                   database_task, scene_tasks, scene_tasks_finished>>

GenerateIdle ==
    /\ collection_scenes_config = <<>>
    /\ image_page = [failed |-> FALSE, chunks |-> <<>>]
    /\ image_scrape_task = RunningTask
    /\ database_task = RunningTask
    /\ scene_tasks = <<>>
    /\ scene_tasks_finished = <<>>
    /\ scenes_items = <<>>
    /\ gl_pc = "idle"

SupportIdle ==
    /\ CleanupIdle /\ CounterIdle /\ ChunkIdle /\ StartupIdle /\ MonitorIdle
    /\ GenerateIdle

(***************************************************************************)
(* Scene Content Assembler: create_script, async_parallel_run and          *)
(* get_intermediate_answer, with generate_text and return_gpt_answer.      *)
(***************************************************************************)
MaxQueries == 2

\* 'max_retries=3'
max_retries == 3

\* A Python string: the sequence of its words.
Str(text) == [kind |-> "str", text |-> text]

\* The three items create_script generates from the combined answers.
FinalItems == <<"news_script", "key_messages", "topic">>

\* The return_gpt_answer calls of one create_script call: one per query
\* (get_intermediate_answer) and one per final item (generate_text).
IntermediateCalls == {"intermediate"} \X (1..cs_queries)

FinalCalls == {"final"} \X (1..Len(FinalItems))

GptCalls == IntermediateCalls \cup FinalCalls

\* What the collaborator answers to call c: 'message.content.strip()'.
CompletionText(c) == Str(<<"answer", c[1], ToString(c[2])>>)

TimeoutSentinel == Str(<<"Error:", "OpenAI", "API", "Timeout">>)

UnableSentinel == Str(<<"Error:", "Unable", "to", "generate", "response">>)

\* The except clauses: APITimeoutError, (APIError, RateLimitError), Exception.
FailureKinds == {"APITimeoutError", "APIError", "Exception"}

SentinelFor(kind) ==
    IF kind = "APITimeoutError" THEN TimeoutSentinel ELSE UnableSentinel

\* 'if attempt < max_retries - 1' written as 'if attempt < max_retries'.
HasRetryLeftOffByOne(attempt) == attempt < max_retries

\* 'if attempt < max_retries - 1'
HasRetryLeft(attempt) == attempt < max_retries - 1

NotStarted ==
    [state |-> "not_started", attempt |-> 0, calls_made |-> 0,
     user |-> Str(<<>>), result |-> PyNone]

\* return_gpt_answer(system, user) has entered its loop.
Started(user) ==
    [state |-> "calling", attempt |-> 0, calls_made |-> 0,
     user |-> user, result |-> PyNone]

\* Call c returns value; a returning get_intermediate_answer task is noted
\* in completion order.
ReturnGptAnswerEnds(c, value) ==
    /\ gpt_calls' = [gpt_calls EXCEPT ![c].state = "returned",
                                      ![c].calls_made = @ + 1,
                                      ![c].result = value]
    /\ cs_completed' = IF c \in IntermediateCalls
                         THEN Append(cs_completed, c[2])
                         ELSE cs_completed

\* 'completion = await client.chat.completions.create(...)' succeeds.
GptAttemptSucceeds(c) ==
    /\ gpt_calls[c].state = "calling"
    /\ ReturnGptAnswerEnds(c, CompletionText(c))
    /\ UNCHANGED <<cs_pc, cs_queries, combined_answers, scene_items>>
    /\ UNCHANGED support_vars
    /\ UNCHANGED <<sched_vars, pool_vars, query_vars, slot_vars, store_vars,
                   retrieval_vars>>

\* The create call raises: with a retry left the function sleeps and the
\* loop goes on (a loop that ends this way returns None); without, the
\* function returns the sentinel of the except clause.
GptAttemptFails(c) ==
    /\ gpt_calls[c].state = "calling"
    /\ \E kind \in FailureKinds :
         IF HasRetryLeft(gpt_calls[c].attempt)
           THEN IF gpt_calls[c].attempt + 1 < max_retries
                  THEN /\ gpt_calls' = [gpt_calls EXCEPT ![c].attempt = @ + 1,
                                                        ![c].calls_made = @ + 1]
                       /\ UNCHANGED cs_completed
                  ELSE ReturnGptAnswerEnds(c, PyNone)
           ELSE ReturnGptAnswerEnds(c, SentinelFor(kind))
    /\ UNCHANGED <<cs_pc, cs_queries, combined_answers, scene_items>>
    /\ UNCHANGED support_vars
    /\ UNCHANGED <<sched_vars, pool_vars, query_vars, slot_vars, store_vars,
                   retrieval_vars>>

\* The gather of async_parallel_run with the results in completion order.
AsyncParallelRunResultsAsCompleted ==
    [n \in 1..Len(cs_completed) |->
        gpt_calls[<<"intermediate", cs_completed[n]>>].result.text]

\* 'results_dict = await asyncio.gather(*tasks)' and the loop that collects
\* result['intermediate_gpt_answer']: the results in the order of the tasks.
AsyncParallelRunResults ==
    [q \in 1..cs_queries |-> gpt_calls[<<"intermediate", q>>].result.text]

\* filter_key_messages: for a message of one line, 40 spaces in front of it.
filter_key_messages(message_to_filter) ==
    Str(<<"                                        ">> \o message_to_filter.text)

generate_text(gpt_answer, item_being_generated) ==
    IF item_being_generated = "key_messages"
      THEN filter_key_messages(gpt_answer)
      ELSE gpt_answer

\* async_parallel_run has returned: create_script joins the intermediate
\* answers and creates the three generate_text tasks with the joined text.
AsyncParallelRunReturns ==
    /\ cs_pc = "async_parallel_run"
    /\ \A c \in IntermediateCalls : gpt_calls[c].state = "returned"
    /\ combined_answers' = Str(Join("\n\n", AsyncParallelRunResults))
    /\ gpt_calls' = [c \in GptCalls |->
                        IF c \in FinalCalls
                          THEN Started(combined_answers')
                          ELSE gpt_calls[c]]
    /\ cs_pc' = "generating"
    /\ UNCHANGED <<cs_queries, cs_completed, scene_items>>
    /\ UNCHANGED support_vars
    /\ UNCHANGED <<sched_vars, pool_vars, query_vars, slot_vars, store_vars,
                   retrieval_vars>>

\* The gather of the three tasks returns and create_script returns the
\* scene items.
CreateScriptReturns ==
    /\ cs_pc = "generating"
    /\ \A c \in FinalCalls : gpt_calls[c].state = "returned"
    /\ scene_items' =
          [script |-> generate_text(gpt_calls[<<"final", 1>>].result,
                                    FinalItems[1]),
           images |-> PyNone,
           key_messages |-> generate_text(gpt_calls[<<"final", 2>>].result,
                                          FinalItems[2]),
           topic |-> generate_text(gpt_calls[<<"final", 3>>].result,
                                   FinalItems[3])]
    /\ cs_pc' = "returned"
    /\ UNCHANGED <<cs_queries, gpt_calls, cs_completed, combined_answers>>
    /\ UNCHANGED support_vars
    /\ UNCHANGED <<sched_vars, pool_vars, query_vars, slot_vars, store_vars,
                   retrieval_vars>>

NoSceneItems ==
    [script |-> PyNone, images |-> PyNone, key_messages |-> PyNone,
     topic |-> PyNone]

ScriptIdle ==
    /\ cs_pc = "idle"
    /\ cs_queries = 0
    /\ gpt_calls = <<>>
    /\ cs_completed = <<>>
    /\ combined_answers = Str(<<>>)
    /\ scene_items = NoSceneItems

\* create_script has been called for a scene of cs_queries queries and
\* async_parallel_run has started one get_intermediate_answer per query,
\* each at its return_gpt_answer call.
InitScript ==
    /\ SchedulerIdle
    /\ SupportIdle
    /\ PoolIdle
    /\ QueryIdle
    /\ SlotIdle
    /\ StoreIdle
    /\ RetrievalIdle
    /\ cs_pc = "async_parallel_run"
    /\ cs_queries \in 1..MaxQueries
    /\ gpt_calls = [c \in GptCalls |->
                       IF c \in IntermediateCalls
                         THEN Started(Str(<<"query", ToString(c[2])>>))
                         ELSE NotStarted]
    /\ cs_completed = <<>>
    /\ combined_answers = Str(<<>>)
    /\ scene_items = NoSceneItems

NextScript ==
    \/ \E c \in GptCalls : GptAttemptSucceeds(c)
    \/ \E c \in GptCalls : GptAttemptFails(c)
    \/ AsyncParallelRunReturns
    \/ CreateScriptReturns

SpecScript == InitScript /\ [][NextScript]_vars

PipelineIdle == StoreIdle /\ RetrievalIdle /\ ScriptIdle /\ SupportIdle

\* create_databases_handler has gathered the results of its scenes.
InitStores ==
    /\ SchedulerIdle
    /\ SupportIdle
    /\ PoolIdle
    /\ QueryIdle
    /\ SlotIdle
    /\ RetrievalIdle
    /\ ScriptIdle
    /\ \E sh \in Shapes :
         \E f \in [Cells(sh) -> SlotResults] :
            scene_database_results = GatheredResults(sh, f)
    /\ cdh_pc = "gathered"
    /\ \E at_call \in StoresAtCall :
         /\ unique_databases = at_call.unique
         /\ merged_database = at_call.merged

NextStores ==
    \/ CreateUniqueDatabasesReturns
    \/ CreateUniqueDatabasesRaises
    \/ CreateMergedDatabaseReturns

SpecStores == InitStores /\ [][NextStores]_vars

\* get_intermediate_answer has called find_relevant_docs_database for one
\* query and a database_list.
InitFindRelevantDocsDatabase ==
    /\ frd_fn = "find_relevant_docs_database"
    /\ frd_query_list = <<1>>
    /\ \E len \in 1..MaxLookups :
         \E f \in [1..len -> SearchableStores] :
            frd_database_list = [n \in 1..len |-> StoreObject(f[n], n)]
    /\ judge_pc = "idle"

\* retrieve_secondary_judge_info has called find_relevant_docs_query for a
\* list of queries and configs.merged_database.
InitFindRelevantDocsQuery ==
    /\ frd_fn = "find_relevant_docs_query"
    /\ \E len \in 1..MaxLookups : frd_query_list = [n \in 1..len |-> n]
    /\ frd_database_list = <<MergedStore>>
    /\ judge_pc = "awaiting"

\* Every lookup has been submitted to the ThreadPoolExecutor.
InitRetrieval ==
    /\ SchedulerIdle
    /\ SupportIdle
    /\ PoolIdle
    /\ QueryIdle
    /\ SlotIdle
    /\ StoreIdle
    /\ ScriptIdle
    /\ InitFindRelevantDocsDatabase \/ InitFindRelevantDocsQuery
    /\ frd_num_of_docs \in 1..MaxK
    /\ frd_futures = [n \in Lookups |-> "pending"]
    /\ frd_page_content = <<>>
    /\ frd_metadata = <<>>
    /\ frd_completed = <<>>
    /\ frd_pc = "submitted"
    /\ frd_result = PyNone

NextRetrieval ==
    \/ \E n \in Lookups : LookupCompletes(n)
    \/ \E n \in Lookups : LookupRaises(n)
    \/ FindRelevantDocsDatabaseReturns
    \/ FindRelevantDocsQueryReturns
    \/ RetrieveSecondaryJudgeInfoRaises

SpecRetrieval == InitRetrieval /\ [][NextRetrieval]_vars

MainIdle ==
    /\ SchedulerIdle
    /\ PoolIdle
    /\ QueryIdle
    /\ SlotIdle
    /\ StoreIdle
    /\ RetrievalIdle
    /\ ScriptIdle

\* The machine before any worker exists.
InitCleanup ==
    /\ MainIdle
    /\ CleanupIdle
    /\ CounterIdle
    /\ ChunkIdle
    /\ StartupIdle
    /\ MonitorIdle
    /\ GenerateIdle

NextCleanup ==
    \/ InitializeChromeDriver
    \/ ProcessAppears
    \/ CleanupChromedrivers

SpecCleanup == InitCleanup /\ [][NextCleanup]_vars

\* The interpreter after the imports, before generate_livestream is called.
InitCounter ==
    /\ MainIdle
    /\ CleanupIdle
    /\ CounterIdle
    /\ ChunkIdle
    /\ StartupIdle
    /\ MonitorIdle
    /\ GenerateIdle

NextCounter ==
    \/ GenerateLivestreamStarts
    \/ \E n \in SearchIds :
         \/ GoogleSearchCalled(n)
         \/ GoogleSearchLocks(n)
         \/ GoogleSearchCounts(n)
         \/ GoogleSearchReturns(n)

SpecCounter == InitCounter /\ [][NextCounter]_vars

\* split_markdown_chunks(markdown_document, max_words, min_words) has been
\* called.
InitChunk ==
    /\ MainIdle
    /\ CleanupIdle
    /\ CounterIdle
    /\ StartupIdle
    /\ MonitorIdle
    /\ GenerateIdle
    /\ smc_document \in Documents
    /\ smc_max_words \in 1..MaxChunkWords
    /\ smc_min_words \in 0..MaxChunkWords
    /\ smc_chunks = NotReturned

NextChunk == SplitMarkdownChunksReturns

SpecChunk == InitChunk /\ [][NextChunk]_vars

\* modules/webdriver_handler.py has been imported.
InitStartup ==
    /\ MainIdle
    /\ CleanupIdle
    /\ CounterIdle
    /\ ChunkIdle
    /\ StartupIdle
    /\ MonitorIdle
    /\ GenerateIdle

NextStartup ==
    \/ CreateDriversCalled
    \/ \E c \in Calls :
         \E a \in AllocationsOf(c) :
            \/ StartupBegins(c, a)
            \/ StartupReturns(c, a)
            \/ StartupRaises(c, a)

SpecStartup == InitStartup /\ [][NextStartup]_vars

\* monitor_file_changes(stop_event, file_path, signal_queue) and
\* create_current_topic_list(stop_event, signal_queue) have been scheduled.
\* generate_livestream has created image_scrape_task and database_task and
\* awaits their gather.
InitGenerate ==
    /\ MainIdle
    /\ CleanupIdle
    /\ CounterIdle
    /\ ChunkIdle
    /\ StartupIdle
    /\ MonitorIdle
    /\ collection_scenes_config \in ScenesConfigs
    /\ image_page \in ImagePages
    /\ image_scrape_task = RunningTask
    /\ database_task = RunningTask
    /\ scene_tasks = <<>>
    /\ scene_tasks_finished = <<>>
    /\ scenes_items = <<>>
    /\ gl_pc = "gather_stores"

NextGenerate ==
    \/ ImageScrapeTaskEnds
    \/ DatabaseTaskEnds
    \/ FirstGatherEnds
    \/ \E n \in 1..Len(scene_tasks) : SceneTaskEnds(n)
    \/ SecondGatherEnds
    \/ NextScheduler

SpecGenerate == InitGenerate /\ [][NextGenerate]_vars

InitMonitor ==
    /\ MainIdle
    /\ GenerateIdle
    /\ CleanupIdle
    /\ CounterIdle
    /\ ChunkIdle
    /\ StartupIdle
    /\ stop_event = FALSE
    /\ file_mtime \in {NoFile, 1}
    /\ last_mod_time = NoModTime
    /\ signal_queue = <<>>
    /\ enqueued = <<>>
    /\ monitor_pc = "not started"
    /\ consumer_pc = "not started"
    /\ current_topic_list = <<>>

MonitorSteps == MonitorStarts \/ MonitorWakes \/ MonitorEnds

ConsumerSteps == ConsumerStarts \/ ConsumerWakes

NextMonitor ==
    \/ MonitorStarts
    \/ MonitorWakes
    \/ MonitorEnds
    \/ ConsumerStarts
    \/ ConsumerWakes
    \/ ConsumerReadFails
    \/ StopEventSet
    \/ FileModified

\* The event loop runs every coroutine that is ready and every timer fires.
SpecMonitor ==
    /\ InitMonitor
    /\ [][NextMonitor]_vars
    /\ WF_vars(MonitorSteps)
    /\ WF_vars(ConsumerSteps)

\* fetch_and_process_slot(driver, primary_url, backup_url, process_to_db, ...)
\* has been called and has started the primary fetch_html.
InitSlot ==
    /\ SchedulerIdle
    /\ PoolIdle
    /\ QueryIdle
    /\ PipelineIdle
    /\ primary_url \in {"primary.html", "primary.pdf"}
    /\ backup_url \in {NoUrl, "backup.html", "backup.pdf"}
    /\ process_to_db \in BOOLEAN
    /\ slot_pc = "primary"
    /\ driver = "given"
    /\ clean_texts = PyNone
    /\ url_for_metadata = NoUrl
    /\ slot_result = PyNone
    /\ quits = [d \in {"given", "fresh"} |-> 0]
    /\ primary_content = NotFetched
    /\ backup_content = NotFetched
    /\ backup_branch = FALSE
    /\ fetch_attempts = <<>>

NextSlot ==
    \/ PrimaryFetchEnds
    \/ \E a \in Allocations : AcquireStartupSem(a)
    \/ \E a \in Allocations : AttemptSucceeds(a)
    \/ \E a \in Allocations : AttemptFails(a)
    \/ \E a \in Allocations : RetriesExhausted(a)
    \/ CreateDriversEnds
    \/ RespawnReturns
    \/ RespawnRaises
    \/ BackupFetchEnds

SpecSlot == InitSlot /\ [][NextSlot]_vars

\* create_databases_for_query has called create_drivers(len(websites_to_use)).
InitPool ==
    /\ SchedulerIdle
    /\ num_of_drivers \in 0..MaxDrivers
    /\ allocs = NewAllocations(num_of_drivers)
    /\ create_drivers_result = "pending"
    /\ drivers = <<>>
    /\ cq_pc = "create_drivers"
    /\ driver_list = <<>>
    /\ SlotIdle
    /\ PipelineIdle

NextPool ==
    \/ \E a \in Allocations : AcquireStartupSem(a)
    \/ \E a \in Allocations : AttemptSucceeds(a)
    \/ \E a \in Allocations : AttemptFails(a)
    \/ \E a \in Allocations : RetriesExhausted(a)
    \/ CreateDriversEnds
    \/ QueryProceeds
    \/ QueryRaises

SpecPool == InitPool /\ [][NextPool]_vars

Init == InitScheduler /\ PoolIdle /\ QueryIdle /\ SlotIdle /\ PipelineIdle

Next == NextScheduler

Spec == Init /\ [][Next]_vars

(***************************************************************************)
(* Claims about the Collection Playback Scheduler.                         *)
(***************************************************************************)

\* C1: at most one Playback Task is in flight at any time, and each playback
\* (scene audio or interstitial YouTube audio) has ended, at a time not later
\* than the start of the next one, by the time the next one exists.
C1_PlaybackNonOverlap ==
    /\ Cardinality(Running) <= 1
    /\ \A k \in 1..(Len(tasks) - 1) :
          /\ TaskDone(k)
          /\ tasks[k].end <= tasks[k + 1].start

\* C1 witness: a second pass has started its playback after a YouTube
\* interstitial and the scene playbacks of the pass before it.
C1_Witness ==
    /\ passes_done >= 1
    /\ Len(tasks) > num_scenes + 1
    /\ \E k \in 1..Len(tasks) : tasks[k].name = "youtube"
    /\ tasks[Len(tasks)].name = "scene"

\* C2 (as stated): whenever process_one_scene is waiting for the previous
\* scene's Playback Task, the generation of the next scene's content has
\* already been started.
C2_Original ==
    (/\ pos_pc \in {"yt_await_previous", "gather"}
     /\ ~TaskDone(previous_audio_task))
        => generate_scene_task # "none"

\* C3 (as stated): once collections_handler has gone past the launch on its
\* final iteration, the next-batch generation task exists (it runs
\* concurrently with the replay, and both are joined before the next cycle).
C3_Original ==
    (/\ IsFinalIteration(i)
     /\ ch_pc \notin {"first_pass", "loop_head", "final_iteration"})
        => generate_new_scene_items_task # "none"

\* C4 (as stated): next-batch generation is launched exactly when the batch
\* has been passed through total_collection_iterations times: never at
\* another count, and not later than that.
C4_Original ==
    /\ generate_new_scene_items_task # "none"
          => passes_done = total_collection_iterations
    /\ (/\ passes_done >= total_collection_iterations
        /\ ch_pc \in {"raised", "returned"})
          => generate_new_scene_items_task # "none"

\* C5 (as stated): the scheduler has no terminal state: collections_handler
\* never returns and never ends otherwise.
C5_Original ==
    ch_pc \notin {"returned", "raised"}

(***************************************************************************)
(* Claims about the Worker Pool.                                           *)
(***************************************************************************)

\* C6: create_drivers(n) returns exactly n usable workers or raises; once an
\* allocation has exhausted its retries the call never returns a list, the
\* failure reaches the caller, and the caller never proceeds with fewer than
\* n workers.
C6_AllOrNothing ==
    /\ create_drivers_result = "returned"
          => /\ Len(drivers) = num_of_drivers
             /\ \A a \in Allocations : allocs[a].state = "done"
    /\ (\E a \in Allocations : allocs[a].state = "failed")
          => /\ create_drivers_result \in {"pending", "raised"}
             /\ cq_pc \in {"create_drivers", "raised"}
    /\ cq_pc = "fetching" => Len(driver_list) = num_of_drivers
    /\ cq_pc = "raised" => \E a \in Allocations : allocs[a].state = "failed"

\* C6 witness: a call for several workers in which one allocation failed
\* permanently while a sibling produced a driver, and the caller has raised.
C6_Witness ==
    /\ num_of_drivers >= 2
    /\ cq_pc = "raised"
    /\ \E a, b \in Allocations :
          allocs[a].state = "failed" /\ allocs[b].state = "done"

\* C7: every allocation makes at most 10 attempts; one whose first f < 10
\* attempts failed returns a worker after exactly f + 1 attempts, one whose
\* 10 attempts all failed raises, and an allocation that has not entered
\* initialize_chrome_driver has made no attempt whatever its siblings did.
C7_RetryBound ==
    \A a \in Allocations :
        /\ allocs[a].attempts <= MaxAttempts
        /\ allocs[a].state = "done"
              => /\ allocs[a].retry_count < MaxAttempts
                 /\ allocs[a].attempts = allocs[a].retry_count + 1
        /\ allocs[a].state = "failed"
              => /\ allocs[a].retry_count = MaxAttempts
                 /\ allocs[a].attempts = MaxAttempts
        /\ allocs[a].state = "running"
              => allocs[a].attempts = allocs[a].retry_count
        /\ allocs[a].state = "waiting"
              => allocs[a].attempts = 0 /\ allocs[a].retry_count = 0

\* C7 witness: create_drivers(3) has returned 3 workers although one
\* allocation failed on its first two attempts; the other two succeeded at once.
C7_Witness ==
    /\ num_of_drivers = 3
    /\ create_drivers_result = "returned"
    /\ Len(drivers) = 3
    /\ \E a \in Allocations :
          /\ allocs[a].retry_count = 2
          /\ allocs[a].attempts = 3
          /\ \A b \in Allocations \ {a} : allocs[b].attempts = 1

(***************************************************************************)
(* Claims about the Fetch Resilience Layer.                                *)
(***************************************************************************)
SlotEnded == slot_pc \in {"returned", "raised"}

\* C8 (as stated): every worker used by fetch_and_process_slot receives
\* exactly one quit: never more than one, and exactly one once the call has
\* ended, on every exit path.
C8_Original ==
    /\ \A d \in {"given", "fresh"} : quits[d] <= 1
    /\ SlotEnded
          => /\ quits["given"] = 1
             /\ driver = "fresh" => quits["fresh"] = 1

\* C9 (as stated): with a backup configured and process_to_db set, a primary
\* that delivers nothing makes the call return what the backup fetch produces,
\* tagged with the backup URL (unless no fresh worker could be acquired); a
\* primary that delivers text makes it return the primary's store, tagged with
\* the primary URL, and the backup is never fetched.
C9_Original ==
    (SlotEnded /\ backup_url # NoUrl /\ process_to_db)
        => IF primary_content.failed
             THEN \/ create_drivers_result = "raised"
                  \/ /\ slot_pc = "returned"
                     /\ backup_content # NotFetched
                     /\ LET b == fetch_html(backup_url, backup_content).value
                        IN  slot_result = IF Truthy(b)
                                            THEN process_text_to_db(b, backup_url)
                                            ELSE PyNone
             ELSE /\ slot_pc = "returned"
                  /\ slot_result.kind = "Database"
                  /\ slot_result.website = primary_url
                  /\ backup_content = NotFetched

\* No usable text: nothing delivered (timeout, load error, failed PDF
\* download) or a document without a single word (empty extraction).
NoUsableText(content) ==
    \/ content.failed
    \/ \A k \in 1..Len(content.doc) : content.doc[k] = <<>>

\* C10 (as stated): the fallback to the backup is taken if and only if a
\* backup URL exists and the primary attempt yielded no usable text.
C10_Original ==
    SlotEnded
        => (backup_branch <=> (backup_url # NoUrl /\ NoUsableText(primary_content)))

\* C11 (as stated): a slot without a backup whose primary fetch fails (a web
\* page that times out or does not load, a PDF whose download fails) makes
\* fetch_and_process_slot return None; the call does not raise.
C11_Original ==
    (SlotEnded /\ backup_url = NoUrl /\ primary_content.failed)
        => (slot_pc = "returned" /\ slot_result = PyNone)

(***************************************************************************)
(* Claims about the Retrieval Store Builder.                               *)
(***************************************************************************)
\* The flattened list has an empty contribution (None) next to a store.
OneSlotEmpty(flat) ==
    /\ \E n \in 1..Len(flat) : flat[n] = PyNone
    /\ \E n \in 1..Len(flat) : flat[n] # PyNone

\* C12 (as stated): when one slot of the cycle yields an empty contribution,
\* create_databases_handler is not aborted: deduplication and the merged
\* store complete with the other slots' contributions.
C12_Original ==
    OneSlotEmpty(Flatten(scene_database_results)) => cdh_pc # "raised"

\* The store at position n is the first of the list with its website.
FirstSeen(flat, n) ==
    \A m \in 1..(n - 1) : flat[m].metadata # flat[n].metadata

RECURSIVE DocumentsOfFirstSeen(_, _)
\* The documents of the first-seen stores from position n on, in list order.
DocumentsOfFirstSeen(flat, n) ==
    IF n > Len(flat)
      THEN <<>>
      ELSE (IF FirstSeen(flat, n) THEN flat[n].database.docstore ELSE <<>>)
              \o DocumentsOfFirstSeen(flat, n + 1)

\* C14: once create_databases_handler has returned, the merged store holds
\* exactly the documents of the first-encountered store of each distinct
\* website, concatenated in list order, and no document of a later store
\* with an already-seen website.
C14_MergedIsFirstSeen ==
    cdh_pc = "returned"
        => LET flat == Flatten(scene_database_results)
               docs == merged_database.database.docstore
           IN  /\ docs = DocumentsOfFirstSeen(flat, 1)
               /\ \A n \in 1..Len(flat) :
                     ~FirstSeen(flat, n)
                        => \A k \in 1..Len(flat[n].database.docstore) :
                              \A m \in 1..Len(docs) :
                                 docs[m] # flat[n].database.docstore[k]

\* C14 witness: the handler has returned for a list with two websites in
\* which a later store repeats a website with other documents.
C14_Witness ==
    /\ cdh_pc = "returned"
    /\ Len(unique_databases) = 2
    /\ LET flat == Flatten(scene_database_results) IN
          \E m, n \in 1..Len(flat) :
             /\ m < n
             /\ flat[m].metadata = flat[n].metadata
             /\ Len(flat[m].database.docstore)
                   # Len(flat[n].database.docstore)

\* The documents without their object identity.
Content(docs) ==
    [n \in 1..Len(docs) |->
        [page_content |-> docs[n].page_content, metadata |-> docs[n].metadata]]

\* Two stores share the source identifier and have identical content.
SameStore(a, b) ==
    /\ a.metadata = b.metadata
    /\ Content(a.database.docstore) = Content(b.database.docstore)

Swap(flat, m, n) ==
    [k \in 1..Len(flat) |->
        IF k = m THEN flat[n] ELSE IF k = n THEN flat[m] ELSE flat[k]]

\* C15: exchanging two stores that share a website and have identical
\* content leaves the merged document set unchanged, and
\* create_unique_databases applied to its own result returns the same list.
C15_DedupStable ==
    cdh_pc = "returned"
        => LET flat == Flatten(scene_database_results) IN
           /\ \A m, n \in 1..Len(flat) :
                 SameStore(flat[m], flat[n])
                    => Content(create_merged_database(
                                  UniqueLoop(Swap(flat, m, n), <<>>, {}).value
                               ).database.docstore)
                         = Content(merged_database.database.docstore)
           /\ create_unique_databases(
                  << << [query |-> 1, database_list |-> unique_databases] >> >>)
                 = [raised |-> FALSE, value |-> unique_databases]

\* C15 witness: the handler has returned for a list in which two different
\* store objects share website and content and a second website occurs.
C15_Witness ==
    /\ cdh_pc = "returned"
    /\ Len(unique_databases) = 2
    /\ LET flat == Flatten(scene_database_results) IN
          \E m, n \in 1..Len(flat) :
             m < n /\ flat[m] # flat[n] /\ SameStore(flat[m], flat[n])

(***************************************************************************)
(* Claims about the Retrieval Query Layer.                                 *)
(***************************************************************************)
\* An entry of a database_list that cannot be searched: a None slot result
\* or a Database whose index is None.
Unavailable(store) ==
    IF store = PyNone THEN TRUE ELSE store.database = PyNone

\* C13 (as stated): a find_relevant_docs_database call over a list with
\* unavailable entries does not raise, and every unavailable store whose
\* lookup has completed contributed the sentinel result.
C13_Original ==
    (/\ frd_fn = "find_relevant_docs_database"
     /\ \E n \in Lookups : Unavailable(frd_database_list[n]))
        => /\ frd_pc # "raised"
           /\ \A c \in 1..Len(frd_completed) :
                 Unavailable(frd_database_list[frd_completed[c].lookup])
                    => frd_completed[c].passages = NoData.relevant_page_content

RECURSIVE PassagesOf(_)
\* The passages of the completed lookups, in completion order.
PassagesOf(completed) ==
    IF completed = <<>>
      THEN <<>>
      ELSE Head(completed).passages \o PassagesOf(Tail(completed))

\* C16: when find_relevant_docs_database has returned, every store of the
\* list has contributed once, between 1 and k passages, all of them texts of
\* that store (the sentinel for a store without index); the result holds
\* these passages and no others, hence at most k * |stores|, whatever the
\* order in which the lookups completed.
C16_Completeness ==
    (frd_fn = "find_relevant_docs_database" /\ frd_pc = "returned")
        => /\ \A n \in Lookups :
                 \E c \in 1..Len(frd_completed) :
                    /\ frd_completed[c].lookup = n
                    /\ \A d \in 1..Len(frd_completed) :
                          frd_completed[d].lookup = n => d = c
                    /\ Len(frd_completed[c].passages) >= 1
                    /\ Len(frd_completed[c].passages) <= frd_num_of_docs
                    /\ \A a \in 1..Len(frd_completed[c].passages) :
                          IF Unavailable(frd_database_list[n])
                            THEN frd_completed[c].passages[a] = <<"None">>
                            ELSE \E doc \in 1..Len(frd_database_list[n]
                                                     .database.docstore) :
                                    frd_database_list[n].database.docstore[doc]
                                       .page_content
                                      = frd_completed[c].passages[a]
           /\ frd_result.relevant_page_content_string
                 = Join(", ", PassagesOf(frd_completed))
           /\ Len(frd_result.metadata) = Len(PassagesOf(frd_completed))
           /\ Len(frd_result.metadata)
                 <= frd_num_of_docs * Len(frd_database_list)

\* C16 witness: a call over three stores has returned although the lookups
\* completed in the reverse of their submission order, with k = 1 and a
\* store that holds two documents.
C16_Witness ==
    /\ frd_fn = "find_relevant_docs_database"
    /\ frd_pc = "returned"
    /\ frd_num_of_docs = 1
    /\ Len(frd_database_list) = 3
    /\ \A c \in 1..3 : frd_completed[c].lookup = 4 - c
    /\ \E n \in Lookups :
          /\ ~Unavailable(frd_database_list[n])
          /\ Len(frd_database_list[n].database.docstore) = 2

\* C17 (as stated): find_relevant_docs_query returns a Query Result of at
\* most k * |queries| passages that its caller can unpack as
\* (passages, metadata).
C17_Original ==
    (frd_fn = "find_relevant_docs_query" /\ frd_pc = "returned")
        => /\ frd_result.kind = "list"
           /\ Len(frd_page_content) <= frd_num_of_docs * Len(frd_query_list)
           /\ judge_pc # "raised"

(***************************************************************************)
(* Claims about the Scene Content Assembler and text generation.           *)
(***************************************************************************)
RECURSIVE InDeclarationOrder(_)
\* The intermediate answers of queries q, q + 1, ... with a blank line
\* between two of them.
InDeclarationOrder(q) ==
    IF q > cs_queries
      THEN <<>>
      ELSE gpt_calls[<<"intermediate", q>>].result.text
              \o (IF q < cs_queries THEN <<"\n\n">> ELSE <<>>)
              \o InDeclarationOrder(q + 1)

\* C18: once any of the three downstream generation calls has started, every
\* per-query assembly has finished, all three calls have started, and each
\* has received the intermediate answers concatenated in query-declaration
\* order, whatever the order in which the assemblies completed.
C18_DeclarationOrder ==
    (\E c \in FinalCalls : gpt_calls[c].state # "not_started")
        => /\ \A c \in IntermediateCalls : gpt_calls[c].state = "returned"
           /\ Len(cs_completed) = cs_queries
           /\ \A c \in FinalCalls :
                 /\ gpt_calls[c].state # "not_started"
                 /\ gpt_calls[c].user = Str(InDeclarationOrder(1))
                 /\ gpt_calls[c].user = combined_answers

\* C18 witness: the three downstream calls run for a scene of two queries
\* whose second assembly completed before the first, both with an answer.
C18_Witness ==
    /\ cs_pc = "generating"
    /\ cs_queries = 2
    /\ cs_completed = <<2, 1>>
    /\ \A c \in IntermediateCalls : gpt_calls[c].result = CompletionText(c)
    /\ \E c \in FinalCalls : gpt_calls[c].calls_made > 0

\* C19: every return_gpt_answer call makes at most 3 attempts; it returns
\* the generated text at its first successful attempt, each earlier attempt
\* having failed, and after 3 failed attempts it returns a sentinel string
\* that starts with 'Error:'; it ends in no other way.
C19_RetryThenSentinel ==
    \A c \in GptCalls :
        /\ gpt_calls[c].calls_made <= max_retries
        /\ gpt_calls[c].state \in {"not_started", "calling", "returned"}
        /\ gpt_calls[c].state = "calling"
              => /\ gpt_calls[c].calls_made = gpt_calls[c].attempt
                 /\ gpt_calls[c].attempt < max_retries
        /\ gpt_calls[c].state = "returned"
              => /\ gpt_calls[c].result.kind = "str"
                 /\ \/ /\ gpt_calls[c].result = CompletionText(c)
                       /\ gpt_calls[c].calls_made = gpt_calls[c].attempt + 1
                    \/ /\ gpt_calls[c].result \in {TimeoutSentinel, UnableSentinel}
                       /\ Head(gpt_calls[c].result.text) = "Error:"
                       /\ gpt_calls[c].calls_made = max_retries
                       /\ gpt_calls[c].attempt = max_retries - 1

\* C19 witness: one call has returned the timeout sentinel after 3 attempts
\* and another the generated text at its second attempt.
C19_Witness ==
    /\ \E c \in GptCalls :
          /\ gpt_calls[c].state = "returned"
          /\ gpt_calls[c].result = TimeoutSentinel
          /\ gpt_calls[c].calls_made = 3
    /\ \E c \in GptCalls :
          /\ gpt_calls[c].state = "returned"
          /\ gpt_calls[c].result = CompletionText(c)
          /\ gpt_calls[c].calls_made = 2

\* The words of s occur in t, in a row.
Appears(s, t) ==
    \E k \in 0..(Len(t) - Len(s)) : SubSeq(t, k + 1, k + Len(s)) = s

\* C20 (as stated): when create_script has returned, the sentinel string of
\* every per-query or final generation call that ended in one appears in the
\* scene items: in the script, the key messages or the topic.
C20_Original ==
    cs_pc = "returned"
        => \A c \in GptCalls :
              gpt_calls[c].result \in {TimeoutSentinel, UnableSentinel}
                 => \/ Appears(gpt_calls[c].result.text, scene_items.script.text)
                    \/ Appears(gpt_calls[c].result.text,
                               scene_items.key_messages.text)
                    \/ Appears(gpt_calls[c].result.text, scene_items.topic.text)

\* The scene playbacks among the play_audio tasks.
ScenePlaybacks == {t \in 1..Len(tasks) : tasks[t].name = "scene"}

\* C24: once the first scene's playback has started, exactly one Playback
\* Task is outstanding at every later moment (no interval without playback
\* between scenes, passes or cycles).
C24_Original ==
    (ScenePlaybacks # {}) => (Cardinality(Running) = 1)

\* The position whose playback process_one_scene was handed, when there is one.
HasPreviousPosition == index > 0 \/ passes_done > 0

PreviousPosition == IF index = 0 THEN num_scenes - 1 ELSE index - 1

\* C30: generation never runs more than one scene ahead of playback: while
\* generate_scene_content runs for a position, the playback of the position
\* before it has been started and every scene playback older than that one
\* has completed.
C30_OneSceneAhead ==
    (generate_scene_task = "running" /\ HasPreviousPosition) =>
        /\ previous_audio_task \in ScenePlaybacks
        /\ tasks[previous_audio_task].scene = PreviousPosition
        /\ \A t \in ScenePlaybacks :
              t # previous_audio_task => tasks[t].end # 0

\* C30 witness: generation of a position runs while the playback of the
\* position before it is still running and an older playback has completed.
C30_Witness ==
    /\ generate_scene_task = "running"
    /\ previous_audio_task \in Running
    /\ \E t \in ScenePlaybacks : t < previous_audio_task /\ TaskDone(t)

(***************************************************************************)
(* Claims about the tagged worker cleanup.                                  *)
(***************************************************************************)

\* C21: cleanup_chromedrivers called with a missing or empty session tag
\* raises an error at once and kills no process.
C21_EmptyTagRaises ==
    [][(/\ cleanup_calls' = cleanup_calls + 1
        /\ cleanup_result'.session_tag \in {EmptyString, NoneValue})
         => /\ cleanup_result'.outcome = "ValueError"
            /\ cleanup_result'.killed = {}
            /\ procs' = procs]_vars

\* C21 witness: the call with the empty string has raised while Chrome
\* processes of two workers are running.
C21_Witness ==
    /\ cleanup_result.outcome = "ValueError"
    /\ cleanup_result.session_tag = EmptyString
    /\ \E p \in Pids, q \in Pids :
          /\ procs[p].worker = 1 /\ procs[p].name = "chrome" /\ procs[p].alive
          /\ procs[q].worker = 2 /\ procs[q].name = "chrome" /\ procs[q].alive

\* C22: a cleanup_chromedrivers(tag) call ends only processes whose command
\* line contains that tag, whatever their name, and no two workers carry the
\* same session tag.
C22_KillsOnlyTagged ==
    [][/\ \A p \in Pids :
            (procs[p].alive /\ ~procs'[p].alive)
              => cleanup_result'.session_tag \in procs[p].cmdline
       /\ \A v \in 1..Len(worker_tags'), w \in 1..Len(worker_tags') :
            v # w => worker_tags'[v] # worker_tags'[w]]_vars

\* C22 witness: a call has killed a process of one worker while the Chrome
\* of another worker and a process of another program are still running.
C22_Witness ==
    /\ cleanup_result.outcome = "returned"
    /\ cleanup_result.killed # {}
    /\ \E p \in Pids :
          /\ procs[p].alive
          /\ procs[p].name = "chrome"
          /\ procs[p].worker \notin {0} \cup
                 {procs[q].worker : q \in cleanup_result.killed}
    /\ \E p \in Outside : procs[p].alive /\ ContainsChrome(procs[p].name)

\* C29: disposing a worker in the fetch layer also performs the tag-matched
\* cleanup of that worker's OS processes: whenever a worker of the slot has
\* been quit, cleanup_chromedrivers has been called.
C29_Original ==
    (\E d \in DOMAIN quits : quits[d] > 0) => cleanup_calls > 0

(***************************************************************************)
(* Claims about the search-API call counter.                                *)
(***************************************************************************)

\* The google_search calls of the current cycle that have counted themselves.
CountedSearches ==
    {n \in SearchIds : searches[n] \in {"counted", "returned"}}

\* C23: the counter that google_search increments is reset at the start of
\* every generate_livestream call, so it equals the number of search calls
\* of the current cycle and never accumulates.
C23_Original ==
    cse_api_call_count["web_scraper"] = Cardinality(CountedSearches)

(***************************************************************************)
(* Claims about split_markdown_chunks.                                      *)
(***************************************************************************)

\* " ".join(chunks).split(): the words of all chunks, in order.
RECURSIVE JoinChunks(_)
JoinChunks(chunks) ==
    IF chunks = <<>> THEN <<>> ELSE Head(chunks) \o JoinChunks(Tail(chunks))

\* C25: joining the chunks returned by split_markdown_chunks in order gives
\* the original text after whitespace normalisation: no word and no heading
\* marker is lost, duplicated or reordered.
C25_Original ==
    (smc_chunks # NotReturned) =>
        JoinChunks(smc_chunks) = Normalised(smc_document, 1)

(***************************************************************************)
(* Claims about worker startup.                                             *)
(***************************************************************************)

\* C26: across all concurrent create_drivers calls, per-query acquisitions
\* and backup respawns alike, at most 2 worker initializations are in
\* progress.
C26_StartupBound == Cardinality(AllInProgress) <= 2

\* C26 witness: a query's call and a respawn's call each have one
\* initialization in progress while a third allocation waits.
C26_Witness ==
    \E c \in Calls, d \in Calls :
       /\ create_drivers_calls[c].caller = "create_databases_for_query"
       /\ create_drivers_calls[d].caller = "fetch_and_process_slot"
       /\ InProgressOf(c) # {}
       /\ InProgressOf(d) # {}
       /\ \E a \in AllocationsOf(c) :
             create_drivers_calls[c].allocs[a] = "waiting"

(***************************************************************************)
(* Claims about the order of events in one slot.                            *)
(***************************************************************************)

\* The fetch_html calls that were made with worker d.
AttemptsBy(d) ==
    {k \in 1..Len(fetch_attempts) : fetch_attempts[k].driver = d}

CreatedWorkers == {a \in Allocations : allocs[a].state = "done"}

\* The workers that create_drivers has returned to its caller, the only
\* place from which they are passed on to a slot that quits them.
ReturnedWorkers == {drivers[k] : k \in 1..Len(drivers)}

\* C28: every worker created by create_drivers is disposed in the end, also
\* in a call in which a sibling allocation fails for good: once the call has
\* ended, every worker it created is with the caller.
C28_Original ==
    (create_drivers_result # "pending") =>
        (CreatedWorkers \subseteq ReturnedWorkers)

\* C36: no chunk returned by split_markdown_chunks holds more than max_words
\* words, also after segments below min_words have been combined with a
\* neighbouring chunk.
C36_Original ==
    (smc_chunks # NotReturned) =>
        \A k \in 1..Len(smc_chunks) : Len(smc_chunks[k]) <= smc_max_words

(***************************************************************************)
(* Claims about monitor_file_changes and create_current_topic_list.         *)
(***************************************************************************)

\* C33: after the stop signal is observed, monitor_file_changes enqueues no
\* further file-change event, enqueues exactly one sentinel as its last
\* queue item, and then terminates.
C33_SentinelLast ==
    /\ [][/\ monitor_pc = "final_sleep" =>
               \/ enqueued' = enqueued
               \/ /\ enqueued' = Append(enqueued, Sentinel)
                  /\ monitor_pc' = "returned"
          /\ monitor_pc = "returned" =>
               /\ enqueued' = enqueued
               /\ monitor_pc' = "returned"]_vars
    /\ [](monitor_pc = "returned" =>
            /\ enqueued # <<>>
            /\ enqueued[Len(enqueued)] = Sentinel
            /\ Len(Events(enqueued)) = Len(enqueued) - 1)
    /\ (monitor_pc = "final_sleep") ~> (monitor_pc = "returned")

\* C33 witness: the monitor has returned after it had enqueued the first
\* event and a file change.
C33_Witness ==
    /\ monitor_pc = "returned"
    /\ Len(Events(enqueued)) >= 2

\* C34: once the stop signal is set while a monitor feeds the queue, the
\* consumer loop create_current_topic_list terminates in the end, in every
\* interleaving of monitor and consumer.
C34_ConsumerTerminates ==
    stop_event ~> (consumer_pc = "returned")

\* C34 witness: the consumer, blocked on the empty queue when the stop signal
\* was set, has returned on the sentinel with the topics it had collected.
C34_Witness ==
    /\ stop_event
    /\ consumer_pc = "returned"
    /\ monitor_pc = "returned"
    /\ signal_queue = <<>>
    /\ current_topic_list # <<>>

\* C35: no file-change event is dropped on shutdown: the list returned by
\* create_current_topic_list holds one topic for every event enqueued before
\* the sentinel, in enqueue order.
C35_Original ==
    (consumer_pc = "returned" /\ monitor_pc = "returned") =>
        current_topic_list = Events(enqueued)

(***************************************************************************)
(* Claims about the audio files of the scenes.                             *)
(***************************************************************************)
\* 'audio_file_name = f"scene_{index+1}_audio"': the number in the name of the
\* audio files of the scene at a position of scenes_items.
AudioFileNumber(position) == position + 1

\* The files generate_audio_handler is exporting: generate_scene_content runs
\* for the scene at 'index'.
FilesBeingWritten ==
    IF generate_scene_task = "running" THEN {AudioFileNumber(index)} ELSE {}

\* The files of the scene playbacks in flight.
FilesBeingPlayed ==
    {AudioFileNumber(tasks[t].scene) :
        t \in {r \in Running : tasks[r].name = "scene"}}

\* C39: the audio asset of the scene that is playing is never regenerated or
\* overwritten while its playback task is in flight, for every batch size.
C39_Original == FilesBeingWritten \cap FilesBeingPlayed = {}

\* C38: configs.use_tts_api is True exactly during the first pass over a
\* batch and False during every replay pass; every scene that is played had
\* its audio synthesized by the TTS API in the first pass, and no replay pass
\* makes a TTS API call.
C38_TtsFirstPassOnly ==
    /\ (ch_pc = "first_pass") => (use_tts_api = "True")
    /\ (ch_pc \in {"pass", "loop_head", "final_iteration"}) =>
           (use_tts_api = "False")
    /\ \A k \in 1..Len(tts_api_calls) :
           tts_api_calls[k].api <=> (tts_api_calls[k].pass = 0)
    /\ \A t \in 1..Len(tasks) :
           (tasks[t].name = "scene") =>
               \E k \in 1..Len(tts_api_calls) :
                   /\ tts_api_calls[k].scene = tasks[t].scene
                   /\ tts_api_calls[k].pass = 0
                   /\ tts_api_calls[k].api

\* C38 witness: a replay pass has run generate_audio_handler for a scene
\* whose audio the first pass had synthesized, and the scene is played again.
C38_Witness ==
    /\ \E k \in 1..Len(tts_api_calls) :
           tts_api_calls[k].pass >= 1 /\ ~tts_api_calls[k].api
    /\ \E t, u \in 1..Len(tasks) :
           /\ t < u
           /\ tasks[t].name = "scene"
           /\ tasks[u].name = "scene"
           /\ tasks[t].scene = tasks[u].scene

(***************************************************************************)
(* Claims about the stores across calls of create_databases_handler.       *)
(***************************************************************************)
\* The Document objects a list of stores holds.
DocumentObjects(databases) ==
    {AllDocuments(databases)[n].id : n \in 1..Len(AllDocuments(databases))}

\* C32: a call of create_databases_handler assigns the per-source stores and
\* the collection-wide store once each, both built anew from the results of
\* this call, and the stores an earlier call left are replaced as a whole:
\* none of their Document objects is in a new store and nothing is added to
\* them.
C32_StoresBuiltAnew ==
    /\ [][/\ (unique_databases' # unique_databases) =>
                (cdh_pc = "gathered" /\ cdh_pc' = "unique")
          /\ (merged_database' # merged_database) =>
                (cdh_pc = "unique" /\ cdh_pc' = "returned")]_vars
    /\ [](cdh_pc = "returned" =>
            /\ DocumentObjects(unique_databases)
                  \cap DocumentObjects(<<PreviousStore>>) = {}
            /\ DocumentObjects(<<merged_database>>)
                  = DocumentObjects(unique_databases)
            /\ DocumentObjects(unique_databases)
                  \subseteq DocumentObjects(
                      SelectSeq(Flatten(scene_database_results),
                                LAMBDA db : db # PyNone)))

\* C32 witness: the handler has returned in a process whose configs held the
\* stores of an earlier call with the same website, and both stores differ
\* from those of the earlier call.
C32_Witness ==
    /\ cdh_pc = "returned"
    /\ unique_databases # <<PreviousStore>>
    /\ \E n \in 1..Len(unique_databases) :
          unique_databases[n].metadata = PreviousStore.metadata
    /\ merged_database # PreviousMerged
    /\ Len(unique_databases) = 2

(***************************************************************************)
(* Claims about generate_livestream.                                       *)
(***************************************************************************)
\* The scene playbacks in the order in which they were started.
ScenePlaybacksInOrder ==
    SelectSeq(tasks, LAMBDA task : task.name = "scene")

\* C31: in every pass the scenes are played in the configured order: entry n
\* of scenes_items is the content generated from scene n of scenes_config,
\* in whatever order the generations end, and scene_handler starts the
\* playbacks of a pass in index order.
C31_ConfiguredOrder ==
    (gl_pc = "collections_handler") =>
        /\ Len(scenes_items) = Len(collection_scenes_config)
        /\ \A n \in 1..Len(scenes_items) :
              scenes_items[n].scene = collection_scenes_config[n]
        /\ \A k \in 1..Len(ScenePlaybacksInOrder) :
              /\ ScenePlaybacksInOrder[k].scene = (k - 1) % num_scenes
              /\ scenes_items[ScenePlaybacksInOrder[k].scene + 1].scene
                    = collection_scenes_config[((k - 1) % num_scenes) + 1]

\* C31 witness: the scene generations ended in the reverse of the configured
\* order and a replay pass has started its second playback.
C31_Witness ==
    /\ gl_pc = "collections_handler"
    /\ Len(scene_tasks_finished) >= 2
    /\ scene_tasks_finished[1] = Len(scene_tasks_finished)
    /\ Len(ScenePlaybacksInOrder) >= num_scenes + 2

\* C37: a failed fetch of the image-source URL is an empty contribution:
\* fetch_images_off_specific_url returns an empty image list without raising
\* and generate_livestream still produces the scenes' content.
C37_Original ==
    image_page.failed =>
        /\ image_scrape_task.state # "raised"
        /\ (image_scrape_task.state = "done") => (image_scrape_task.value = {})
        /\ (gl_pc = "raised") => (database_task.state = "raised")

====
